---- MODULE Spec2Model ----
(***************************************************************************)
(* Model of src/panel.py (copper procurement dashboard).                   *)
(*                                                                         *)
(* Python floats are modelled as exact rationals <<numerator, denominator>> *)
(* in lowest terms with a positive denominator; NaN (np.nan) is the pair    *)
(* <<0, 0>>.  Arithmetic propagates NaN and every comparison with NaN is    *)
(* FALSE, as in IEEE 754.  Rounding error of binary floating point is not   *)
(* modelled: equalities below are equalities of the exact values.           *)
(***************************************************************************)
EXTENDS Integers, Sequences, FiniteSets, TLC

VARIABLES budget_eur, copper_percentage, transport_cost_factor,
          copper_price, oil_price, eur_cny_price, usd_cny_price,
          order, proj, calls, pc,
          hist, period, ind, tech, sens, rng, sims, mc,
          recommendations, historical_df, data, fetch

vars == <<budget_eur, copper_percentage, transport_cost_factor,
          copper_price, oil_price, eur_cny_price, usd_cny_price,
          order, proj, calls, pc,
          hist, period, ind, tech, sens, rng, sims, mc,
          recommendations, historical_df, data, fetch>>

\* The state of the order and projection steps, and the state of the
\* indicator, sensitivity and simulation steps.
order_vars == <<budget_eur, copper_percentage, transport_cost_factor,
                copper_price, oil_price, eur_cny_price, usd_cny_price,
                order, proj, calls>>

analysis_vars == <<hist, period, ind, tech, sens, rng, sims, mc>>

Instruments == {"copper", "oil", "eur_cny", "usd_cny"}

\* pd.DataFrame(): no rows, no columns.
EmptyFrame == [close |-> <<>>, columns |-> {}]

NoInd == [fn |-> "none", rsi |-> <<0, 0>>, slope |-> <<0, 0>>, trend |-> "not called"]

NoTech == [bollinger |-> "not run", macd |-> "not run",
           latest_macd |-> <<0, 0>>, latest_signal |-> <<0, 0>>]

NoRun == [rng_before |-> 0, vol |-> <<>>, trial |-> 0, sim_results |-> <<>>]

\* The state of the recommendations, of the aligned history, of the session
\* lists and of the two fetches.
session_vars == <<recommendations, historical_df, data, fetch>>

\* Lines 102-105.
NoData == [copper |-> <<>>, oil |-> <<>>, eur_cny |-> <<>>, usd_cny |-> <<>>,
           copper_quantity_ton |-> <<>>, timestamps |-> <<>>]

NoFetch == [attempt |-> 0, log |-> <<>>]

SessionIdle ==
    /\ recommendations = <<>>
    /\ historical_df = <<>>
    /\ data = NoData
    /\ fetch = NoFetch

AnalysisIdle ==
    /\ hist = [i \in Instruments |-> EmptyFrame]
    /\ period = 0
    /\ ind = NoInd
    /\ tech = NoTech
    /\ sens = <<>>
    /\ rng = 0
    /\ sims = <<>>
    /\ mc = NoRun

(***************************************************************************)
(* Bounds of the input grids.                                              *)
(***************************************************************************)
MaxBudgetUnits == 1
MaxPctSteps == 3
MaxPriceHalves == 2
MaxSlopeSteps == 1
MaxStd == 1

(***************************************************************************)
(* Floats as rationals.                                                    *)
(***************************************************************************)
Abs(n) == IF n < 0 THEN -n ELSE n

RECURSIVE GCD(_, _)
GCD(a, b) == IF b = 0 THEN a ELSE GCD(b, a % b)

NaN == <<0, 0>>

isnan(x) == x[2] = 0

Rat(n, d) ==
    IF d = 0 THEN NaN
    ELSE LET g == GCD(Abs(n), Abs(d))
             s == IF d < 0 THEN -1 ELSE 1
         IN  <<(s * n) \div g, (s * d) \div g>>

Num(n) == <<n, 1>>

RMul(a, b) ==
    IF isnan(a) \/ isnan(b) THEN NaN
    ELSE LET g1 == GCD(Abs(a[1]), b[2])
             g2 == GCD(Abs(b[1]), a[2])
         IN  Rat((a[1] \div g1) * (b[1] \div g2), (a[2] \div g2) * (b[2] \div g1))

RDiv(a, b) ==
    IF isnan(a) \/ isnan(b) \/ b[1] = 0 THEN NaN
    ELSE RMul(a, IF b[1] < 0 THEN <<-b[2], -b[1]>> ELSE <<b[2], b[1]>>)

RAdd(a, b) ==
    IF isnan(a) \/ isnan(b) THEN NaN
    ELSE LET g == GCD(a[2], b[2])
         IN  Rat(a[1] * (b[2] \div g) + b[1] * (a[2] \div g), a[2] * (b[2] \div g))

RNeg(a) == IF isnan(a) THEN NaN ELSE <<-a[1], a[2]>>

RSub(a, b) == RAdd(a, RNeg(b))

\* a <= b; FALSE when either side is NaN.  Common factors are cancelled
\* before cross-multiplying.
RLe(a, b) ==
    /\ ~isnan(a)
    /\ ~isnan(b)
    /\ LET gn == GCD(Abs(a[1]), Abs(b[1]))
           gd == GCD(a[2], b[2])
           an == IF gn = 0 THEN 0 ELSE a[1] \div gn
           bn == IF gn = 0 THEN 0 ELSE b[1] \div gn
       IN  an * (b[2] \div gd) <= bn * (a[2] \div gd)

RGe(a, b) == RLe(b, a)

RLt(a, b) == RLe(a, b) /\ a # b

RGt(a, b) == RLt(b, a)

Zero == Num(0)

Hundred == Num(100)

(***************************************************************************)
(* calculate_order (src/panel.py 159-173), one definition per statement.   *)
(***************************************************************************)
LbToTon == Rat(453592, 1000000000)

\* Faulty variant: the guard forgets the transport-proxy price.
any_nan_skips_oil(cp, op, ep, up) == isnan(cp) \/ isnan(ep) \/ isnan(up)

any_nan(cp, op, ep, up) == isnan(cp) \/ isnan(op) \/ isnan(ep) \/ isnan(up)

budget_cny(b, ep) == RMul(b, ep)

copper_budget_cny(bc, pct) == RMul(bc, RDiv(pct, Hundred))

\* Faulty variant: the non-commodity allocation takes the commodity share.
other_budget_cny_same_share(bc, pct) == RMul(bc, RDiv(pct, Hundred))

other_budget_cny(bc, pct) == RMul(bc, RSub(Num(1), RDiv(pct, Hundred)))

copper_price_cny(cp, up) == RMul(cp, up)

oil_price_cny(op, up) == RMul(op, up)

copper_quantity_lb(cb, cpc) == IF cpc # Zero THEN RDiv(cb, cpc) ELSE NaN

copper_quantity_ton(lb) == IF ~isnan(lb) THEN RMul(lb, LbToTon) ELSE NaN

\* Faulty variant: the transport factor is not read as a percentage.
transport_cost_cny_no_pct(opc, tf) ==
    IF ~isnan(opc) THEN RMul(opc, tf) ELSE Zero

transport_cost_cny(opc, tf) ==
    IF ~isnan(opc) THEN RDiv(RMul(opc, tf), Hundred) ELSE Zero

\* Faulty variant: the remainder is not floored at zero.
other_cost_cny_unfloored(ob, tc) == RSub(ob, tc)

other_cost_cny(ob, tc) == IF RGe(ob, tc) THEN RSub(ob, tc) ELSE Zero

\* Faulty variant: the total leaves the transport cost out.
total_order_cost_cny_no_transport(cb, tc, oc) == RAdd(cb, oc)

total_order_cost_cny(cb, tc, oc) == RAdd(RAdd(cb, tc), oc)

budget_status(bc, total) == RSub(bc, total)

AllNaN ==
    [budget_cny |-> NaN, copper_budget_cny |-> NaN, other_budget_cny |-> NaN,
     copper_quantity_lb |-> NaN, copper_quantity_ton |-> NaN,
     transport_cost_cny |-> NaN, other_cost_cny |-> NaN,
     total_order_cost_cny |-> NaN, budget_status |-> NaN, raised |-> "none"]

calculate_order(b, pct, tf, cp, op, ep, up) ==
    IF any_nan(cp, op, ep, up) THEN AllNaN
    ELSE LET bc  == budget_cny(b, ep)
             cb  == copper_budget_cny(bc, pct)
             ob  == other_budget_cny(bc, pct)
             cpc == copper_price_cny(cp, up)
             opc == oil_price_cny(op, up)
             lb  == copper_quantity_lb(cb, cpc)
             ton == copper_quantity_ton(lb)
             tc  == transport_cost_cny(opc, tf)
             oc  == other_cost_cny(ob, tc)
             tot == total_order_cost_cny(cb, tc, oc)
             st  == budget_status(bc, tot)
         IN  [budget_cny |-> bc, copper_budget_cny |-> cb, other_budget_cny |-> ob,
              copper_quantity_lb |-> lb, copper_quantity_ton |-> ton,
              transport_cost_cny |-> tc, other_cost_cny |-> oc,
              total_order_cost_cny |-> tot, budget_status |-> st, raised |-> "none"]

(***************************************************************************)
(* Input grids for calls of calculate_order.                               *)
(***************************************************************************)
NoOrder == [AllNaN EXCEPT !.raised = "not called"]

NoProj == [copper |-> <<NaN, NaN, NaN>>, oil |-> <<NaN, NaN, NaN>>,
           eur_cny |-> <<NaN, NaN, NaN>>, usd_cny |-> <<NaN, NaN, NaN>>]

BudgetGrid == {Num(-1000)} \cup {Num(1000 * k) : k \in 1..MaxBudgetUnits}

PctGrid == {Num(-50)} \cup {Num(50 * k) : k \in 0..MaxPctSteps}

FactorGrid == {Num(-1), Num(0), Rat(1, 10), Num(1), Num(10), Num(150)}

PriceGrid == {NaN} \cup {Rat(n, 2) : n \in -1..MaxPriceHalves}

\* The end-to-end scenario of the specification's section 8.
E2E == [b |-> Num(100000), pct |-> Num(50), tf |-> Num(1), cp |-> Rat(9, 2),
        op |-> Num(80), ep |-> Rat(39, 5), up |-> Rat(36, 5)]

\* Parameters within the sidebar's ranges (src/panel.py 96-98) for which the
\* transport cost (57.6) exceeds the non-commodity allocation (39).
Deficit == [b |-> Num(1000), pct |-> Rat(199, 2), tf |-> Num(10), cp |-> Rat(9, 2),
            op |-> Num(80), ep |-> Rat(39, 5), up |-> Rat(36, 5)]

OrderInputs ==
    [b : BudgetGrid, pct : PctGrid, tf : FactorGrid,
     cp : PriceGrid, op : PriceGrid, ep : PriceGrid, up : PriceGrid]
        \cup {E2E, Deficit}

InitOrder ==
    /\ \E i \in OrderInputs :
          /\ budget_eur = i.b
          /\ copper_percentage = i.pct
          /\ transport_cost_factor = i.tf
          /\ copper_price = i.cp
          /\ oil_price = i.op
          /\ eur_cny_price = i.ep
          /\ usd_cny_price = i.up
    /\ order = NoOrder
    /\ proj = NoProj
    /\ calls = <<>>
    /\ pc = "call"
    /\ AnalysisIdle
    /\ SessionIdle

CalculateOrder ==
    /\ pc = "call"
    /\ order' = calculate_order(budget_eur, copper_percentage, transport_cost_factor,
                                copper_price, oil_price, eur_cny_price, usd_cny_price)
    /\ pc' = "returned"
    /\ UNCHANGED <<budget_eur, copper_percentage, transport_cost_factor,
                   copper_price, oil_price, eur_cny_price, usd_cny_price, proj, calls>>
    /\ UNCHANGED analysis_vars
    /\ UNCHANGED session_vars

NextOrder == CalculateOrder

Spec == InitOrder /\ [][NextOrder]_vars

(***************************************************************************)
(* The four-month projection of update_dashboard (src/panel.py 491-539).   *)
(* A projection is a triple <<expected, lower, upper>>.  The last EMA      *)
(* value, the standard deviations and the regression slope are inputs of   *)
(* this step, drawn from grids.                                            *)
(***************************************************************************)
span == 30

days_ahead == 80

TradingDays == 252

\* np.sqrt of a non-negative integer, to a precision of one quarter.
sqrt(n) ==
    LET k == CHOOSE j \in 0..(4 * n) :
                 j * j <= 16 * n /\ (j + 1) * (j + 1) > 16 * n
    IN  Rat(k, 4)

\* The value project_future_price returns (src/panel.py 202-207) for a last
\* EMA value and the standard deviation of the tail.
projection_band(ema_value, std_value) ==
    IF isnan(ema_value) THEN <<NaN, NaN, NaN>>
    ELSE <<ema_value, RSub(ema_value, std_value), RAdd(ema_value, std_value)>>

SqrtDaysAhead == sqrt(days_ahead)

SqrtTradingDays == sqrt(TradingDays)

drift(hist_std) == RDiv(RMul(hist_std, SqrtDaysAhead), SqrtTradingDays)

\* Lines 496-502 (and 505-511, 514-520, 523-529): the projected triple of one
\* instrument, or three times the current price when the EMA is NaN.
future_prices(band, slope, hist_std, current) ==
    IF ~isnan(band[1])
    THEN LET trend == RMul(slope, Num(days_ahead))
         IN  <<RAdd(band[1], trend),
               RSub(RAdd(band[2], trend), drift(hist_std)),
               RAdd(RAdd(band[3], trend), drift(hist_std))>>
    ELSE <<current, current, current>>

expected_scenario_args(p) == <<p.copper[1], p.oil[1], p.eur_cny[1], p.usd_cny[1]>>

\* Faulty variant: the min-quantity scenario takes the lower commodity price.
min_scenario_args_copper_low(p) == <<p.copper[2], p.oil[3], p.eur_cny[2], p.usd_cny[3]>>

min_scenario_args(p) == <<p.copper[3], p.oil[3], p.eur_cny[2], p.usd_cny[3]>>

\* Faulty variant: the max-quantity scenario takes the lower target-currency rate.
max_scenario_args_eur_low(p) == <<p.copper[2], p.oil[2], p.eur_cny[2], p.usd_cny[2]>>

max_scenario_args(p) == <<p.copper[2], p.oil[2], p.eur_cny[3], p.usd_cny[2]>>

projected_call(args) ==
    [args |-> args,
     ton  |-> calculate_order(budget_eur, copper_percentage, transport_cost_factor,
                              args[1], args[2], args[3], args[4]).copper_quantity_ton]

EmaGrid == {NaN, Num(2)}

StdGrid == {Num(k) : k \in 0..MaxStd}

SlopeGrid == {Rat(k - 1, 80) : k \in 0..MaxSlopeSteps}

HistStdGrid == {Rat(9, 5)}

\* Outcomes of fetch_realtime_data (src/panel.py 133-147): four prices, the
\* commodity series empty, or an exception (four NaN).
CurrentGrid ==
    {<<Num(2), Num(2), Num(2), Num(2)>>, <<NaN, Num(2), Num(2), Num(2)>>,
     <<NaN, NaN, NaN, NaN>>}

\* The sidebar only yields a budget >= 1000 and a share in [0,100].
SidebarBudgets == {b \in BudgetGrid : RGe(b, Num(1000))}

SidebarShares == {q \in PctGrid : RGe(q, Zero) /\ RLe(q, Hundred)}

InitProjection ==
    /\ budget_eur \in SidebarBudgets
    /\ copper_percentage \in SidebarShares
    /\ transport_cost_factor = Num(1)
    /\ \E c \in CurrentGrid :
          /\ copper_price = c[1]
          /\ oil_price = c[2]
          /\ eur_cny_price = c[3]
          /\ usd_cny_price = c[4]
    /\ order = NoOrder
    /\ proj = NoProj
    /\ calls = <<>>
    /\ pc = "fetched"
    /\ AnalysisIdle
    /\ SessionIdle

Project(at, to, field, current) ==
    /\ pc = at
    /\ \E ema \in EmaGrid, std \in StdGrid, slope \in SlopeGrid, hist_std \in HistStdGrid :
          proj' = [proj EXCEPT ![field] =
                      future_prices(projection_band(ema, std), slope, hist_std, current)]
    /\ pc' = to
    /\ UNCHANGED <<budget_eur, copper_percentage, transport_cost_factor,
                   copper_price, oil_price, eur_cny_price, usd_cny_price, order, calls>>
    /\ UNCHANGED analysis_vars
    /\ UNCHANGED session_vars

\* Lines 351-354: the order at the current prices.
CurrentOrder ==
    /\ pc = "fetched"
    /\ order' = calculate_order(budget_eur, copper_percentage, transport_cost_factor,
                                copper_price, oil_price, eur_cny_price, usd_cny_price)
    /\ pc' = "copper"
    /\ UNCHANGED <<budget_eur, copper_percentage, transport_cost_factor,
                   copper_price, oil_price, eur_cny_price, usd_cny_price, proj, calls>>
    /\ UNCHANGED analysis_vars
    /\ UNCHANGED session_vars

ProjectCopper == Project("copper", "oil", "copper", copper_price)

ProjectOil == Project("oil", "eur_cny", "oil", oil_price)

ProjectEurCny == Project("eur_cny", "usd_cny", "eur_cny", eur_cny_price)

ProjectUsdCny == Project("usd_cny", "scenarios", "usd_cny", usd_cny_price)

\* Lines 531-539: the expected, the min-quantity and the max-quantity call.
ProjectedOrders ==
    /\ pc = "scenarios"
    /\ calls' = <<projected_call(expected_scenario_args(proj)),
                  projected_call(min_scenario_args(proj)),
                  projected_call(max_scenario_args(proj))>>
    /\ pc' = "projected"
    /\ UNCHANGED <<budget_eur, copper_percentage, transport_cost_factor,
                   copper_price, oil_price, eur_cny_price, usd_cny_price, order, proj>>
    /\ UNCHANGED analysis_vars
    /\ UNCHANGED session_vars

NextProjection ==
    \/ CurrentOrder
    \/ ProjectCopper
    \/ ProjectOil
    \/ ProjectEurCny
    \/ ProjectUsdCny
    \/ ProjectedOrders

SpecProjection == InitProjection /\ [][NextProjection]_vars

(***************************************************************************)
(* The sensitivity analysis of update_dashboard (src/panel.py 657-673).    *)
(***************************************************************************)
\* Faulty variant: the +5% scenario lowers the price.
plus5_lowers(x) == RMul(x, Rat(95, 100))

plus5(x) == RMul(x, Rat(105, 100))

minus5(x) == RMul(x, Rat(95, 100))

\* Faulty variant: the transport scenarios also move the commodity price.
variations_oil_moves_copper(cp, op, ep, up) ==
    << [label |-> "Cobre +5%",    args |-> <<plus5(cp), op, ep, up>>],
       [label |-> "Cobre -5%",    args |-> <<minus5(cp), op, ep, up>>],
       [label |-> "Petroleo +5%", args |-> <<plus5(cp), plus5(op), ep, up>>],
       [label |-> "Petroleo -5%", args |-> <<minus5(cp), minus5(op), ep, up>>],
       [label |-> "EUR/CNY +5%",  args |-> <<cp, op, plus5(ep), up>>],
       [label |-> "EUR/CNY -5%",  args |-> <<cp, op, minus5(ep), up>>] >>

\* Lines 660-667, in insertion order.
variations(cp, op, ep, up) ==
    << [label |-> "Cobre +5%",    args |-> <<plus5(cp), op, ep, up>>],
       [label |-> "Cobre -5%",    args |-> <<minus5(cp), op, ep, up>>],
       [label |-> "Petroleo +5%", args |-> <<cp, plus5(op), ep, up>>],
       [label |-> "Petroleo -5%", args |-> <<cp, minus5(op), ep, up>>],
       [label |-> "EUR/CNY +5%",  args |-> <<cp, op, plus5(ep), up>>],
       [label |-> "EUR/CNY -5%",  args |-> <<cp, op, minus5(ep), up>>] >>

\* Lines 669-673: one call of calculate_order per scenario.
sensitivity_results(vs) ==
    [k \in 1..Len(vs) |->
        [label |-> vs[k].label, args |-> vs[k].args,
         ton |-> calculate_order(budget_eur, copper_percentage, transport_cost_factor,
                                 vs[k].args[1], vs[k].args[2], vs[k].args[3],
                                 vs[k].args[4]).copper_quantity_ton]]

InitSensitivity ==
    /\ budget_eur \in {b \in BudgetGrid : RGe(b, Num(1000))}
    /\ copper_percentage \in {q \in PctGrid : RGe(q, Zero) /\ RLe(q, Hundred)}
    /\ transport_cost_factor = Num(1)
    /\ copper_price \in PriceGrid
    /\ oil_price \in PriceGrid
    /\ eur_cny_price \in PriceGrid
    /\ usd_cny_price \in PriceGrid
    /\ order = NoOrder
    /\ proj = NoProj
    /\ calls = <<>>
    /\ pc = "sens_fetched"
    /\ AnalysisIdle
    /\ SessionIdle

\* Lines 351-354: the order at the current prices.
SensCurrentOrder ==
    /\ pc = "sens_fetched"
    /\ order' = calculate_order(budget_eur, copper_percentage, transport_cost_factor,
                                copper_price, oil_price, eur_cny_price, usd_cny_price)
    /\ pc' = "sens_guard"
    /\ UNCHANGED <<budget_eur, copper_percentage, transport_cost_factor,
                   copper_price, oil_price, eur_cny_price, usd_cny_price, proj, calls>>
    /\ UNCHANGED analysis_vars
    /\ UNCHANGED session_vars

\* Lines 657-673.
Sensitivity ==
    /\ pc = "sens_guard"
    /\ ~isnan(copper_price) /\ ~isnan(oil_price)
    /\ ~isnan(eur_cny_price) /\ ~isnan(usd_cny_price)
    /\ sens' = sensitivity_results(variations(copper_price, oil_price,
                                              eur_cny_price, usd_cny_price))
    /\ pc' = "sens_done"
    /\ UNCHANGED order_vars
    /\ UNCHANGED <<hist, period, ind, tech, rng, sims, mc>>
    /\ UNCHANGED session_vars

\* Lines 750-751: a current price is missing.
SensitivitySkipped ==
    /\ pc = "sens_guard"
    /\ isnan(copper_price) \/ isnan(oil_price)
         \/ isnan(eur_cny_price) \/ isnan(usd_cny_price)
    /\ pc' = "sens_skipped"
    /\ UNCHANGED order_vars
    /\ UNCHANGED analysis_vars
    /\ UNCHANGED session_vars

NextSensitivity ==
    \/ SensCurrentOrder
    \/ Sensitivity
    \/ SensitivitySkipped

SpecSensitivity == InitSensitivity /\ [][NextSensitivity]_vars

(***************************************************************************)
(* numpy reductions over a list of floats.                                 *)
(***************************************************************************)
RECURSIVE sum_range(_, _, _)
sum_range(xs, lo, hi) ==
    IF lo > hi THEN Zero
    ELSE IF lo = hi THEN xs[lo]
    ELSE LET mid == (lo + hi) \div 2
         IN  RAdd(sum_range(xs, lo, mid), sum_range(xs, mid + 1, hi))

SumSeq(xs) == sum_range(xs, 1, Len(xs))

np_mean(xs) == RDiv(SumSeq(xs), Num(Len(xs)))

np_min(xs) == CHOOSE x \in {xs[k] : k \in 1..Len(xs)} :
                 \A k \in 1..Len(xs) : RLe(x, xs[k])

np_max(xs) == CHOOSE x \in {xs[k] : k \in 1..Len(xs)} :
                 \A k \in 1..Len(xs) : RGe(x, xs[k])

\* The square root of a non-negative float, to a precision of one quarter.
sqrtR(x) ==
    LET k == CHOOSE j \in 0..(4 * (x[1] \div x[2] + 1)) :
                 j * j * x[2] <= 16 * x[1] /\ (j + 1) * (j + 1) * x[2] > 16 * x[1]
    IN  Rat(k, 4)

RAbs(x) == IF x[1] < 0 THEN RNeg(x) ELSE x

\* np.std (population standard deviation).  The values are divided by the
\* magnitude of the first non-zero one before the square root is taken.
np_std(xs) ==
    LET nz    == {k \in 1..Len(xs) : xs[k] # Zero}
        scale == IF nz = {} THEN Num(1)
                 ELSE RAbs(xs[CHOOSE k \in nz : \A j \in nz : k <= j])
        ys    == [k \in 1..Len(xs) |-> RDiv(xs[k], scale)]
        m     == np_mean(ys)
        sq    == [k \in 1..Len(xs) |-> RMul(RSub(ys[k], m), RSub(ys[k], m))]
    IN  RMul(scale, sqrtR(np_mean(sq)))

RECURSIVE Sorted(_)
Sorted(xs) ==
    IF xs = <<>> THEN <<>>
    ELSE LET k == CHOOSE i \in 1..Len(xs) : \A j \in 1..Len(xs) : RLe(xs[i], xs[j])
         IN  <<xs[k]>> \o Sorted([i \in 1..(Len(xs) - 1) |->
                                     IF i < k THEN xs[i] ELSE xs[i + 1]])

\* np.percentile with linear interpolation between the closest ranks.
np_percentile(xs, q) ==
    LET ys   == Sorted(xs)
        n    == Len(xs)
        lo   == ((n - 1) * q) \div 100
        frac == Rat(((n - 1) * q) % 100, 100)
    IN  IF lo + 1 >= n THEN ys[n]
        ELSE RAdd(ys[lo + 1], RMul(frac, RSub(ys[lo + 2], ys[lo + 1])))

np_median(xs) == np_percentile(xs, 50)

(***************************************************************************)
(* The Monte Carlo simulation of update_dashboard (src/panel.py 689-719).  *)
(* The process-wide generator of np.random is a state of 0..4; a draw      *)
(* returns a standard normal value of {-1, 0, 1} read off the state and    *)
(* advances the state.                                                     *)
(***************************************************************************)
n_sim == 2

MonteCarloSeed == 42

rng_next(r) == (r + 1) % 5

\* np.random.seed(seed): the state the seed determines.
seed_state(seed) == seed % 5

\* Faulty variant: the generator is left where earlier draws put it.
reseed_keeps_state(r) == r

\* Line 692.
reseed(r) == seed_state(MonteCarloSeed)

standard_normal(r) == Num((r % 3) - 1)

\* np.exp to a precision of one quarter, exp(-x) = 1 / exp(x).
exp(x) ==
    LET up(y) == LET z == RAdd(Num(1), y)
                 IN  Rat((4 * z[1]) \div z[2], 4)
    IN  IF RGe(x, Zero) THEN up(x) ELSE RDiv(Num(1), up(RNeg(x)))

\* Series.pct_change().dropna() of a list of closes.
pct_change(close) ==
    [k \in 1..(IF Len(close) = 0 THEN 0 ELSE Len(close) - 1) |->
        RDiv(RSub(close[k + 1], close[k]), close[k])]

\* Lines 693-700: the volatility of an instrument, or its default.
volatility(close, default) ==
    IF Len(pct_change(close)) > 0 THEN np_std(pct_change(close)) ELSE default

DefaultVol == [copper |-> Rat(12, 1000), oil |-> Rat(2, 100),
               eur_cny |-> Rat(4, 1000), usd_cny |-> Rat(4, 1000)]

\* Lines 703-706: price * exp(normal(0, vol * sqrt(days_ahead))), drawn at
\* generator state r.
simulated_price(price, vol, r) ==
    RMul(price, exp(RMul(RMul(vol, SqrtDaysAhead), standard_normal(r))))

\* Lines 713-719.
summary(xs) ==
    [mean_qty |-> np_mean(xs), std_qty |-> np_std(xs), min_qty |-> np_min(xs),
     max_qty |-> np_max(xs), p5 |-> np_percentile(xs, 5), p50 |-> np_median(xs),
     p95 |-> np_percentile(xs, 95)]

NoSummary ==
    [mean_qty |-> NaN, std_qty |-> NaN, min_qty |-> NaN, max_qty |-> NaN,
     p5 |-> NaN, p50 |-> NaN, p95 |-> NaN]

FetchedColumns == {"Open", "High", "Low", "Close", "Adj Close", "Volume"}

Frame(close) == [close |-> close, columns |-> FetchedColumns]

\* Histories with no return, with a constant return and with returns 1/4, -1/5.
McHistGrid == {Frame(<<Num(2)>>), Frame(<<Num(4), Num(5), Num(4)>>)}

McPriceGrid == CurrentGrid \cup {<<Num(1), Num(2), Num(2), Num(1)>>}

InitMonteCarlo ==
    /\ budget_eur \in {b \in BudgetGrid : RGe(b, Num(1000))}
    /\ copper_percentage \in {q \in PctGrid : RGt(q, Zero) /\ RLe(q, Hundred)}
    /\ transport_cost_factor = Num(1)
    /\ \E c \in McPriceGrid :
          /\ copper_price = c[1]
          /\ oil_price = c[2]
          /\ eur_cny_price = c[3]
          /\ usd_cny_price = c[4]
    /\ order = NoOrder
    /\ proj = NoProj
    /\ calls = <<>>
    /\ pc = "mc_idle"
    /\ hist \in [Instruments -> McHistGrid]
    /\ period = 0
    /\ ind = NoInd
    /\ tech = NoTech
    /\ sens = <<>>
    /\ rng \in 0..4
    /\ sims = <<>>
    /\ mc = NoRun
    /\ SessionIdle

McInputs ==
    [budget |-> budget_eur, share |-> copper_percentage, factor |-> transport_cost_factor,
     prices |-> <<copper_price, oil_price, eur_cny_price, usd_cny_price>>,
     closes |-> [i \in Instruments |-> hist[i].close],
     trials |-> n_sim, horizon |-> days_ahead, seed |-> MonteCarloSeed]

\* Some other code draws from the process-wide generator.
OtherDraw ==
    /\ pc = "mc_idle"
    /\ rng' = rng_next(rng)
    /\ UNCHANGED order_vars
    /\ UNCHANGED <<pc, hist, period, ind, tech, sens, sims, mc>>
    /\ UNCHANGED session_vars

\* Lines 657 and 690-701.
StartMonteCarlo ==
    /\ pc = "mc_idle"
    /\ ~isnan(copper_price) /\ ~isnan(oil_price)
    /\ ~isnan(eur_cny_price) /\ ~isnan(usd_cny_price)
    /\ rng' = reseed(rng)
    /\ mc' = [rng_before |-> rng,
              vol |-> <<volatility(hist.copper.close, DefaultVol.copper),
                        volatility(hist.oil.close, DefaultVol.oil),
                        volatility(hist.eur_cny.close, DefaultVol.eur_cny),
                        volatility(hist.usd_cny.close, DefaultVol.usd_cny)>>,
              trial |-> 0, sim_results |-> <<>>]
    /\ pc' = "mc_loop"
    /\ UNCHANGED order_vars
    /\ UNCHANGED <<hist, period, ind, tech, sens, sims>>
    /\ UNCHANGED session_vars

\* Lines 702-711: one trial, four draws.
Trial ==
    /\ pc = "mc_loop"
    /\ mc.trial < n_sim
    /\ LET r1 == rng
           r2 == rng_next(r1)
           r3 == rng_next(r2)
           r4 == rng_next(r3)
           sim_qty_ton ==
               calculate_order(budget_eur, copper_percentage, transport_cost_factor,
                               simulated_price(copper_price, mc.vol[1], r1),
                               simulated_price(oil_price, mc.vol[2], r2),
                               simulated_price(eur_cny_price, mc.vol[3], r3),
                               simulated_price(usd_cny_price, mc.vol[4], r4)).copper_quantity_ton
       IN  /\ rng' = rng_next(r4)
           /\ mc' = [mc EXCEPT !.trial = @ + 1,
                               !.sim_results = IF ~isnan(sim_qty_ton)
                                               THEN Append(@, sim_qty_ton) ELSE @]
    /\ UNCHANGED order_vars
    /\ UNCHANGED <<pc, hist, period, ind, tech, sens, sims>>
    /\ UNCHANGED session_vars

\* Lines 712-719 (and 748-749 when no trial gave a number).
Summarize ==
    /\ pc = "mc_loop"
    /\ mc.trial = n_sim
    /\ sims' = Append(sims, [inputs |-> McInputs, rng_before |-> mc.rng_before,
                             outcomes |-> mc.sim_results,
                             stats |-> IF Len(mc.sim_results) > 0
                                       THEN summary(mc.sim_results) ELSE NoSummary])
    /\ mc' = NoRun
    /\ pc' = "mc_done"
    /\ UNCHANGED order_vars
    /\ UNCHANGED <<hist, period, ind, tech, sens, rng>>
    /\ UNCHANGED session_vars

\* Lines 753-756 and 351: the script runs again and fetches the prices anew.
Rerun ==
    /\ pc = "mc_done"
    /\ Len(sims) < 2
    /\ \E c \in {<<copper_price, oil_price, eur_cny_price, usd_cny_price>>,
                 <<Num(2), Num(2), Num(2), Num(2)>>} :
          /\ copper_price' = c[1]
          /\ oil_price' = c[2]
          /\ eur_cny_price' = c[3]
          /\ usd_cny_price' = c[4]
    /\ pc' = "mc_idle"
    /\ UNCHANGED <<budget_eur, copper_percentage, transport_cost_factor, order, proj, calls>>
    /\ UNCHANGED analysis_vars
    /\ UNCHANGED session_vars

NextMonteCarlo ==
    \/ OtherDraw
    \/ StartMonteCarlo
    \/ Trial
    \/ Summarize
    \/ Rerun

SpecMonteCarlo == InitMonteCarlo /\ [][NextMonteCarlo]_vars

(***************************************************************************)
(* calculate_rsi and calculate_trend (src/panel.py 212-231) on a series of *)
(* closes.                                                                 *)
(***************************************************************************)
MaxLen == 5

MaxPeriod == 3

RECURSIVE Pow(_, _)
Pow(x, i) == IF i = 0 THEN Num(1) ELSE RMul(x, Pow(x, i - 1))

\* Series.diff() without its leading NaN.
delta(close) ==
    [k \in 1..(IF Len(close) = 0 THEN 0 ELSE Len(close) - 1) |->
        RSub(close[k + 1], close[k])]

\* delta.clip(lower=0) and -delta.clip(upper=0).
gain(d) == [k \in 1..Len(d) |-> IF RGt(d[k], Zero) THEN d[k] ELSE Zero]

loss(d) == [k \in 1..Len(d) |-> IF RLt(d[k], Zero) THEN RNeg(d[k]) ELSE Zero]

\* The last value of xs.ewm(alpha=alpha, min_periods=min_periods).mean()
\* (adjust=True): the average of the observations weighted by (1-alpha)^age,
\* NaN with fewer than min_periods observations.
RECURSIVE WeightedSum(_, _, _)
WeightedSum(xs, w, age) ==
    IF xs = <<>> THEN Zero
    ELSE RAdd(RMul(Pow(w, age), xs[Len(xs)]),
              WeightedSum(SubSeq(xs, 1, Len(xs) - 1), w, age + 1))

ewm_mean(xs, alpha, min_periods) ==
    IF Len(xs) < min_periods \/ Len(xs) = 0 THEN NaN
    ELSE LET w == RSub(Num(1), alpha)
         IN  RDiv(WeightedSum(xs, w, 0),
                  WeightedSum([k \in 1..Len(xs) |-> Num(1)], w, 0))

avg_gain(close, p) == ewm_mean(gain(delta(close)), Rat(1, p), p)

avg_loss(close, p) == ewm_mean(loss(delta(close)), Rat(1, p), p)

\* Lines 221-222: rs = avg_gain / avg_loss and rsi = 100 - 100 / (1 + rs) in
\* float arithmetic: x / 0 is inf for x > 0 and NaN for x = 0, 100 / inf is 0.
rsi_value(ag, al) ==
    IF isnan(ag) \/ isnan(al) THEN NaN
    ELSE IF al = Zero THEN (IF ag = Zero THEN NaN ELSE Hundred)
    ELSE RSub(Hundred, RDiv(Hundred, RAdd(Num(1), RDiv(ag, al))))

\* Faulty variant: neither the length guard nor min_periods.
calculate_rsi_unguarded(close, p) ==
    IF Len(close) < 2 THEN NaN
    ELSE rsi_value(ewm_mean(gain(delta(close)), Rat(1, p), 0),
                   ewm_mean(loss(delta(close)), Rat(1, p), 0))

calculate_rsi(close, p) ==
    IF Len(close) = 0 \/ Len(close) < p + 1 THEN NaN
    ELSE rsi_value(avg_gain(close, p), avg_loss(close, p))

\* historical_data["Close"].tail(period).
tail(close, n) == SubSeq(close, Len(close) - n + 1, Len(close))

\* The slope of scipy.stats.linregress(arange(len(ys)), ys).
linregress_slope(ys) ==
    LET n    == Len(ys)
        xbar == Rat(n - 1, 2)
        ybar == np_mean(ys)
        sxy  == SumSeq([k \in 1..n |-> RMul(RSub(Num(k - 1), xbar), RSub(ys[k], ybar))])
        sxx  == SumSeq([k \in 1..n |-> RMul(RSub(Num(k - 1), xbar), RSub(Num(k - 1), xbar))])
    IN  RDiv(sxy, sxx)

trend_of(close) ==
    LET slope == linregress_slope(close)
    IN  [slope |-> slope, trend |-> IF RGt(slope, Zero) THEN "Alcista" ELSE "Bajista"]

\* Faulty variant: a shorter series is fitted on the closes it has.
calculate_trend_fits_short(close, p) ==
    IF Len(close) < 2 THEN [slope |-> NaN, trend |-> "Indeterminada"]
    ELSE trend_of(IF Len(close) < p THEN close ELSE tail(close, p))

calculate_trend(close, p) ==
    IF Len(close) = 0 \/ Len(close) < p THEN [slope |-> NaN, trend |-> "Indeterminada"]
    ELSE trend_of(tail(close, p))

CloseGrid == {Num(1), Num(2)}

SeriesGrid == UNION {[1..n -> CloseGrid] : n \in 0..MaxLen}

\* Periods of the RSI calls: small ones and the default of line 212.
RsiPeriods == (1..MaxPeriod) \cup {14}

\* Windows of the trend calls: small ones and the default of line 225.
TrendWindows == (2..MaxPeriod) \cup {30}

InitIndicators ==
    /\ budget_eur = Num(1000)
    /\ copper_percentage = Num(50)
    /\ transport_cost_factor = Num(1)
    /\ copper_price = NaN
    /\ oil_price = NaN
    /\ eur_cny_price = NaN
    /\ usd_cny_price = NaN
    /\ order = NoOrder
    /\ proj = NoProj
    /\ calls = <<>>
    /\ pc = "ind_idle"
    /\ \E c \in SeriesGrid :
          hist = [i \in Instruments |-> IF i = "copper" THEN Frame(c) ELSE EmptyFrame]
    /\ period = 0
    /\ ind = NoInd
    /\ tech = NoTech
    /\ sens = <<>>
    /\ rng = 0
    /\ sims = <<>>
    /\ mc = NoRun
    /\ SessionIdle

CalculateRsi ==
    /\ pc = "ind_idle"
    /\ \E p \in RsiPeriods :
          /\ period' = p
          /\ ind' = [fn |-> "calculate_rsi", rsi |-> calculate_rsi(hist.copper.close, p),
                     slope |-> NaN, trend |-> "not called"]
    /\ pc' = "ind_done"
    /\ UNCHANGED order_vars
    /\ UNCHANGED <<hist, tech, sens, rng, sims, mc>>
    /\ UNCHANGED session_vars

CalculateTrend ==
    /\ pc = "ind_idle"
    /\ \E p \in TrendWindows :
          /\ period' = p
          /\ LET r == calculate_trend(hist.copper.close, p)
             IN  ind' = [fn |-> "calculate_trend", rsi |-> NaN,
                         slope |-> r.slope, trend |-> r.trend]
    /\ pc' = "ind_done"
    /\ UNCHANGED order_vars
    /\ UNCHANGED <<hist, tech, sens, rng, sims, mc>>
    /\ UNCHANGED session_vars

NextIndicators ==
    \/ CalculateRsi
    \/ CalculateTrend

SpecIndicators == InitIndicators /\ [][NextIndicators]_vars

(***************************************************************************)
(* The technical indicators of update_dashboard (src/panel.py 577-653):    *)
(* Bollinger Bands and MACD of the copper series.                          *)
(***************************************************************************)
MaxRows == 27

MinRowsTechnical == 26

MinRowsBollinger == 20

window == 20

MacdFast == 12

MacdSlow == 26

MacdSignal == 9

\* Lines 584-600 on the last row: the price against SMA +/- 2 * STD of the
\* last `window` closes, STD being the sample deviation (ddof = 1).  The
\* comparison price > SMA + 2 * STD is decided on the squares.
bollinger_result(close) ==
    LET w      == tail(close, window)
        price  == close[Len(close)]
        sma    == np_mean(w)
        var    == RDiv(SumSeq([k \in 1..window |->
                          RMul(RSub(w[k], sma), RSub(w[k], sma))]), Num(window - 1))
        d      == RSub(price, sma)
        beyond == RGt(RMul(d, d), RMul(Num(4), var))
    IN  IF isnan(price) \/ isnan(sma) \/ isnan(var) THEN "warning"
        ELSE IF RGt(d, Zero) /\ beyond THEN "Sobrecompra"
        ELSE IF RLt(d, Zero) /\ beyond THEN "Sobreventa"
        ELSE "neutral"

\* xs.ewm(span=span, adjust=False).mean():
\* y[1] = x[1], y[t] = (1 - a) * y[t-1] + a * x[t] with a = 2 / (span + 1).
RECURSIVE ewm_fold(_, _, _, _)
ewm_fold(xs, a, k, acc) ==
    IF Len(acc) >= Len(xs) THEN acc
    ELSE ewm_fold(xs, a, k + 1,
                  Append(acc, IF k = 1 THEN xs[1]
                              ELSE RAdd(RMul(RSub(Num(1), a), acc[k - 1]),
                                        RMul(a, xs[k]))))

ewm_span(xs, sp) == ewm_fold(xs, Rat(2, sp + 1), 1, <<>>)

\* Lines 622-635 on the last row.
macd_result(close) ==
    LET short_ema == ewm_span(close, MacdFast)
        long_ema  == ewm_span(close, MacdSlow)
        macd      == [k \in 1..Len(close) |-> RSub(short_ema[k], long_ema[k])]
        signal    == ewm_span(macd, MacdSignal)
        latest_macd   == macd[Len(close)]
        latest_signal == signal[Len(close)]
    IN  [state |-> IF isnan(latest_macd) \/ isnan(latest_signal) THEN "warning"
                   ELSE IF RGt(latest_macd, latest_signal) THEN "Alcista"
                   ELSE "Bajista",
         latest_macd |-> latest_macd, latest_signal |-> latest_signal]

BollingerColumns == {"SMA", "STD", "Upper Band", "Lower Band"}

MacdColumns == {"MACD", "Signal", "Histogram"}

\* Faulty variant: the MACD is computed for a series of any length.
technical_block_macd_any_length(frame) ==
    IF Len(frame.close) = 0 \/ "Close" \notin frame.columns
    THEN [tech |-> [bollinger |-> "error: no data", macd |-> "error: no data",
                    latest_macd |-> NaN, latest_signal |-> NaN],
          frame |-> frame]
    ELSE LET doBollinger == Len(frame.close) >= MinRowsTechnical
             m == macd_result(frame.close)
         IN  [tech |-> [bollinger |-> IF doBollinger THEN bollinger_result(frame.close)
                                      ELSE "error: no data",
                        macd |-> m.state,
                        latest_macd |-> m.latest_macd,
                        latest_signal |-> m.latest_signal],
              frame |-> [frame EXCEPT !.columns =
                            @ \cup (IF doBollinger THEN BollingerColumns ELSE {})
                              \cup MacdColumns]]

\* Lines 579-653: what is shown for the frame and the frame afterwards.
technical_block(frame) ==
    IF Len(frame.close) # 0 /\ "Close" \in frame.columns
       /\ Len(frame.close) >= MinRowsTechnical
    THEN LET doBollinger == Len(frame.close) >= MinRowsBollinger
             doMacd      == Len(frame.close) >= MacdSlow
             m == macd_result(frame.close)
         IN  [tech |-> [bollinger |-> IF doBollinger THEN bollinger_result(frame.close)
                                      ELSE "error: min 20",
                        macd |-> IF doMacd THEN m.state ELSE "error: min 26",
                        latest_macd |-> IF doMacd THEN m.latest_macd ELSE NaN,
                        latest_signal |-> IF doMacd THEN m.latest_signal ELSE NaN],
              frame |-> [frame EXCEPT !.columns =
                            @ \cup (IF doBollinger THEN BollingerColumns ELSE {})
                              \cup (IF doMacd THEN MacdColumns ELSE {})]]
    ELSE [tech |-> [bollinger |-> "error: no data", macd |-> "error: no data",
                    latest_macd |-> NaN, latest_signal |-> NaN],
          frame |-> frame]

\* Series of n closes: a flat stretch at 2 followed by at most two closes of
\* 1, 2 or 3.
TailGrid == {<<>>} \cup [1..1 -> {Num(1), Num(2), Num(3)}]
                   \cup [1..2 -> {Num(1), Num(2), Num(3)}]

TechSeriesGrid ==
    UNION {{[k \in 1..(n - Len(t)) |-> Num(2)] \o t : t \in {u \in TailGrid : Len(u) <= n}} :
              n \in 0..MaxRows}

\* The block is examined as a function of the copper frame, for a frame of
\* every length 0..MaxRows; fetch_historical_data itself hands over frames
\* that are empty or have at least 30 rows (lines 118-131).
InitTechnical ==
    /\ budget_eur = Num(1000)
    /\ copper_percentage = Num(50)
    /\ transport_cost_factor = Num(1)
    /\ copper_price = NaN
    /\ oil_price = NaN
    /\ eur_cny_price = NaN
    /\ usd_cny_price = NaN
    /\ order = NoOrder
    /\ proj = NoProj
    /\ calls = <<>>
    /\ pc = "tech_fetched"
    /\ \E c \in TechSeriesGrid :
          hist = [i \in Instruments |-> IF c = <<>> THEN EmptyFrame ELSE Frame(c)]
    /\ period = 0
    /\ ind = NoInd
    /\ tech = NoTech
    /\ sens = <<>>
    /\ rng = 0
    /\ sims = <<>>
    /\ mc = NoRun
    /\ SessionIdle

\* Line 395: historical_df is empty when a series is (lines 312-325).
historical_df_empty == \E i \in Instruments : Len(hist[i].close) = 0

TechnicalIndicators ==
    /\ pc = "tech_fetched"
    /\ ~historical_df_empty
    /\ LET r == technical_block(hist.copper)
       IN  /\ tech' = r.tech
           /\ hist' = [hist EXCEPT !.copper = r.frame]
    /\ pc' = "tech_done"
    /\ UNCHANGED order_vars
    /\ UNCHANGED <<period, ind, sens, rng, sims, mc>>
    /\ UNCHANGED session_vars

\* Line 395 false: none of the analysis is run.
AnalysisSkipped ==
    /\ pc = "tech_fetched"
    /\ historical_df_empty
    /\ pc' = "tech_done"
    /\ UNCHANGED order_vars
    /\ UNCHANGED analysis_vars
    /\ UNCHANGED session_vars

NextTechnical ==
    \/ TechnicalIndicators
    \/ AnalysisSkipped

SpecTechnical == InitTechnical /\ [][NextTechnical]_vars

(***************************************************************************)
(* The aligned history (src/panel.py 311-325), calculate_historical_orders *)
(* (175-187) and the correlations of lines 416-417.                        *)
(***************************************************************************)
MinRows == 30

\* Float infinities, as pandas gives them on a division by zero.
PosInf == <<1, -1>>

NegInf == <<-1, -1>>

isinf(x) == x[2] = -1

\* Series / Series, element by element.
pd_div(a, b) ==
    IF isnan(a) \/ isnan(b) THEN NaN
    ELSE IF b = Zero THEN (IF a = Zero THEN NaN ELSE IF RGt(a, Zero) THEN PosInf ELSE NegInf)
    ELSE RDiv(a, b)

\* Series * positive constant.
pd_scale(a, c) == IF isinf(a) THEN a ELSE RMul(a, c)

\* Series.clip(lower=0).
clip_lower0(a) == IF isnan(a) THEN NaN ELSE IF RLt(a, Zero) THEN Zero ELSE a

PriceColumns == {"Copper", "Oil", "EUR/CNY", "USD/CNY"}

OrderColumns == {"Budget CNY", "Copper Budget CNY", "Other Budget CNY",
                 "Copper Price CNY", "Transport Cost CNY", "Other Cost CNY",
                 "Copper Quantity lb", "Copper Quantity ton",
                 "Total Order Cost CNY", "Budget Status CNY"}

\* Lines 176-186 on one row.
historical_order_row(row, b, pct, tf) ==
    LET bc  == RMul(b, row["EUR/CNY"])
        cb  == RMul(bc, RDiv(pct, Hundred))
        ob  == RMul(bc, RSub(Num(1), RDiv(pct, Hundred)))
        cpc == RMul(row["Copper"], row["USD/CNY"])
        tc  == RMul(RMul(row["Oil"], row["USD/CNY"]), RDiv(tf, Hundred))
        oc  == clip_lower0(RSub(ob, tc))
        lb  == pd_div(cb, cpc)
        ton == pd_scale(lb, LbToTon)
        tot == RAdd(RAdd(cb, tc), oc)
    IN  [c \in {"Date"} \cup PriceColumns \cup OrderColumns |->
            CASE c = "Budget CNY" -> bc
              [] c = "Copper Budget CNY" -> cb
              [] c = "Other Budget CNY" -> ob
              [] c = "Copper Price CNY" -> cpc
              [] c = "Transport Cost CNY" -> tc
              [] c = "Other Cost CNY" -> oc
              [] c = "Copper Quantity lb" -> lb
              [] c = "Copper Quantity ton" -> ton
              [] c = "Total Order Cost CNY" -> tot
              [] c = "Budget Status CNY" -> RSub(bc, tot)
              [] OTHER -> row[c]]

calculate_historical_orders(df, b, pct, tf) ==
    [k \in 1..Len(df) |-> historical_order_row(df[k], b, pct, tf)]

\* A fetched frame with its index of dates.
DatedFrame(index, close) ==
    [close |-> close, columns |-> FetchedColumns, index |-> index]

\* frame.loc[d, "Close"].
close_at(frame, d) ==
    frame.close[CHOOSE k \in 1..Len(frame.index) : frame.index[k] = d]

index_set(frame) == {frame.index[k] : k \in 1..Len(frame.index)}

ascending(S) ==
    [k \in 1..Cardinality(S) |->
        CHOOSE x \in S : Cardinality({y \in S : y < x}) = k - 1]

\* Line 313.
common_index(h) ==
    ascending(index_set(h.copper) \cap index_set(h.oil)
              \cap index_set(h.eur_cny) \cap index_set(h.usd_cny))

\* Lines 314-320: the rows of the common dates, those with a NaN dropped.
aligned_rows(h) ==
    LET ci   == common_index(h)
        rows == [k \in 1..Len(ci) |->
                    [c \in {"Date"} \cup PriceColumns |->
                        CASE c = "Date" -> ci[k]
                          [] c = "Copper" -> close_at(h.copper, ci[k])
                          [] c = "Oil" -> close_at(h.oil, ci[k])
                          [] c = "EUR/CNY" -> close_at(h.eur_cny, ci[k])
                          [] c = "USD/CNY" -> close_at(h.usd_cny, ci[k])]]
    IN  SelectSeq(rows, LAMBDA r : \A c \in PriceColumns : ~isnan(r[c]))

\* Lines 312-324.
build_historical_df(h, b, pct, tf) ==
    IF \A i \in Instruments : Len(h[i].close) # 0
    THEN calculate_historical_orders(aligned_rows(h), b, pct, tf)
    ELSE <<>>

column(df, c) == [k \in 1..Len(df) |-> df[k][c]]

\* Series.corr (Pearson), its magnitude to a precision of one quarter; NaN
\* with fewer than two rows or a constant column.
corr(xs, ys) ==
    IF Len(xs) < 2 THEN NaN
    ELSE LET mx  == np_mean(xs)
             my  == np_mean(ys)
             cov == SumSeq([k \in 1..Len(xs) |-> RMul(RSub(xs[k], mx), RSub(ys[k], my))])
             vx  == SumSeq([k \in 1..Len(xs) |-> RMul(RSub(xs[k], mx), RSub(xs[k], mx))])
             vy  == SumSeq([k \in 1..Len(xs) |-> RMul(RSub(ys[k], my), RSub(ys[k], my))])
         IN  IF vx = Zero \/ vy = Zero THEN NaN
             ELSE LET r == sqrtR(RDiv(RMul(cov, cov), RMul(vx, vy)))
                  IN  IF RLt(cov, Zero) THEN RNeg(r) ELSE r

HistDates == 1..(MinRows + 1)

\* The index of all dates, and the index that lacks the date d.
index_without(d) == ascending(HistDates \ {d})

\* Closes of 2, but a at date 2 and v at date 3.
closes_on(index, a, v) ==
    [k \in 1..Len(index) |-> IF index[k] = 2 THEN a ELSE IF index[k] = 3 THEN v ELSE Num(2)]

CopperFrames ==
    {DatedFrame(index_without(0), closes_on(index_without(0), a, v)) :
        a \in {Num(2), Num(3)}, v \in {Zero, Num(1), Num(2), NaN}}

OilFrames ==
    UNION {{DatedFrame(index_without(d), closes_on(index_without(d), a, v)) :
              a \in {Num(2), Num(3)}, v \in {Num(1), Num(2)}} : d \in {0, MinRows + 1}}

EurCnyFrames ==
    UNION {{DatedFrame(index_without(d), closes_on(index_without(d), Num(2), v)) :
              v \in {Num(2), Num(3)}} : d \in {0, 2}}

UsdCnyFrames ==
    {DatedFrame(index_without(0), closes_on(index_without(0), Num(2), v)) :
        v \in {Zero, Num(2)}}

InitHistory ==
    /\ budget_eur = Num(1000)
    /\ copper_percentage = Num(50)
    /\ transport_cost_factor = Num(1)
    /\ copper_price = NaN
    /\ oil_price = NaN
    /\ eur_cny_price = NaN
    /\ usd_cny_price = NaN
    /\ order = NoOrder
    /\ proj = NoProj
    /\ calls = <<>>
    /\ pc = "hist_fetched"
    /\ \/ hist = [i \in Instruments |-> EmptyFrame]
       \/ \E c \in CopperFrames, o \in OilFrames, e \in EurCnyFrames, u \in UsdCnyFrames :
             hist = [copper |-> c, oil |-> o, eur_cny |-> e, usd_cny |-> u]
    /\ period = 0
    /\ ind = NoInd
    /\ tech = NoTech
    /\ sens = <<>>
    /\ rng = 0
    /\ sims = <<>>
    /\ mc = NoRun
    /\ SessionIdle

\* Lines 311-325.
BuildHistoricalDf ==
    /\ pc = "hist_fetched"
    /\ historical_df' = build_historical_df(hist, budget_eur, copper_percentage,
                                            transport_cost_factor)
    /\ pc' = "hist_built"
    /\ UNCHANGED order_vars
    /\ UNCHANGED analysis_vars
    /\ UNCHANGED <<recommendations, data, fetch>>

\* Lines 395 and 416-417.
Correlations ==
    /\ pc = "hist_built"
    /\ historical_df # <<>>
    /\ ind' = [fn |-> "corr",
               corr_copper_oil |-> corr(column(historical_df, "Copper"),
                                        column(historical_df, "Oil")),
               corr_copper_eurcny |-> corr(column(historical_df, "Copper"),
                                           column(historical_df, "EUR/CNY")),
               points |-> {historical_df[k]["Date"] : k \in 1..Len(historical_df)}]
    /\ pc' = "hist_corr"
    /\ UNCHANGED order_vars
    /\ UNCHANGED <<hist, period, tech, sens, rng, sims, mc>>
    /\ UNCHANGED session_vars

\* Line 395 false: no analysis.
NoHistory ==
    /\ pc = "hist_built"
    /\ historical_df = <<>>
    /\ pc' = "hist_none"
    /\ UNCHANGED order_vars
    /\ UNCHANGED analysis_vars
    /\ UNCHANGED session_vars

NextHistory ==
    \/ BuildHistoricalDf
    \/ Correlations
    \/ NoHistory

SpecHistory == InitHistory /\ [][NextHistory]_vars

(***************************************************************************)
(* The recommendations of update_dashboard (src/panel.py 395-487).         *)
(***************************************************************************)
\* Line 472-473: std / mean * 100 > 5 of the last 30 copper closes of the
\* aligned history (sample deviation), decided on the squares.
copper_vol_above_5(xs) ==
    IF Len(xs) < 2 THEN FALSE
    ELSE LET mean == np_mean(xs)
             var  == RDiv(SumSeq([k \in 1..Len(xs) |->
                             RMul(RSub(xs[k], mean), RSub(xs[k], mean))]),
                          Num(Len(xs) - 1))
         IN  IF RGt(mean, Zero) THEN RGt(RMul(Num(400), var), RMul(mean, mean))
             ELSE FALSE

last_rows(xs, n) == IF Len(xs) <= n THEN xs ELSE tail(xs, n)

\* Lines 440-485: the sentences appended to `recommendations`, in order.
recommend(df, qty, eur, copper_trend_30, oil_trend_30, rsi_copper, corr_copper_oil) ==
    LET quantities == column(df, "Copper Quantity ton")
        savings_vs_avg_ton == RSub(qty, np_mean(quantities))
        savings_vs_min_ton == RSub(qty, np_min(quantities))
        savings_vs_max_ton == RSub(qty, np_max(quantities))
    IN  <<IF RGt(savings_vs_avg_ton, Zero) THEN "supera el promedio"
          ELSE "inferior al promedio">>
        \o (IF RGt(savings_vs_min_ton, Zero) THEN <<"mejora sobre el minimo">> ELSE <<>>)
        \o (IF RLt(savings_vs_max_ton, Zero) THEN <<"por debajo del maximo">> ELSE <<>>)
        \o <<IF copper_trend_30 = "Bajista" THEN "cobre bajista" ELSE "cobre alcista">>
        \o <<IF oil_trend_30 = "Bajista" THEN "petroleo bajista" ELSE "petroleo alcista">>
        \o <<IF RLt(eur, Rat(17, 2)) THEN "EUR/CNY < 8.5" ELSE "EUR/CNY >= 8.5">>
        \o <<IF copper_vol_above_5(last_rows(column(df, "Copper"), 30))
             THEN "mercado inestable" ELSE "mercado estable">>
        \o (IF isnan(rsi_copper) THEN <<>>
            ELSE IF RGt(rsi_copper, Num(70)) THEN <<"RSI sobrecompra">>
            ELSE IF RLt(rsi_copper, Num(30)) THEN <<"RSI sobreventa">>
            ELSE <<"RSI equilibrio">>)
        \o (IF ~isnan(corr_copper_oil) /\ RGt(corr_copper_oil, Rat(1, 2))
            THEN <<"correlacion positiva">> ELSE <<>>)

\* Closes of 2 with the close v on the last date.
closes_ending(index, v) ==
    [k \in 1..Len(index) |-> IF k = Len(index) THEN v ELSE Num(2)]

RecFrames(S) == {DatedFrame(index_without(0), closes_ending(index_without(0), v)) : v \in S}

RecPriceGrid ==
    {<<Num(2), Num(2), Num(2), Num(2)>>, <<Num(2), Num(2), Num(9), Num(2)>>,
     <<Num(2), Num(2), NaN, Num(2)>>, <<NaN, Num(2), Num(2), Num(2)>>,
     <<NaN, NaN, NaN, NaN>>}

\* The values calculate_rsi(copper_hist) can return.
RsiOutcomes == {NaN, Num(20), Num(50), Num(80)}

InitRecommend ==
    /\ budget_eur = Num(1000)
    /\ copper_percentage = Num(50)
    /\ transport_cost_factor = Num(1)
    /\ \E c \in RecPriceGrid :
          /\ copper_price = c[1]
          /\ oil_price = c[2]
          /\ eur_cny_price = c[3]
          /\ usd_cny_price = c[4]
    /\ order = NoOrder
    /\ proj = NoProj
    /\ calls = <<>>
    /\ pc = "hist_fetched"
    /\ \/ hist = [i \in Instruments |-> EmptyFrame]
       \/ \E c \in RecFrames({Num(1), Num(3)}), o \in RecFrames({Num(2), Num(3)}),
             e \in RecFrames({Num(2)}) :
             hist = [copper |-> c, oil |-> o, eur_cny |-> e, usd_cny |-> e]
    /\ period = 0
    /\ ind = NoInd
    /\ tech = NoTech
    /\ sens = <<>>
    /\ rng = 0
    /\ sims = <<>>
    /\ mc = NoRun
    /\ SessionIdle

\* Lines 351-354 with the prices fetched.
OrderForRecommendation ==
    /\ pc = "hist_built"
    /\ order' = calculate_order(budget_eur, copper_percentage, transport_cost_factor,
                                copper_price, oil_price, eur_cny_price, usd_cny_price)
    /\ pc' = "rec_ordered"
    /\ UNCHANGED <<budget_eur, copper_percentage, transport_cost_factor,
                   copper_price, oil_price, eur_cny_price, usd_cny_price, proj, calls>>
    /\ UNCHANGED analysis_vars
    /\ UNCHANGED session_vars

\* Lines 395-487.  calculate_rsi on a series of 30 rows is not evaluated: its
\* value is drawn from RsiOutcomes.
Recommend ==
    /\ pc = "rec_ordered"
    /\ historical_df # <<>>
    /\ \E rsi_copper \in RsiOutcomes :
          LET copper_t == calculate_trend(hist.copper.close, 30)
              oil_t    == calculate_trend(hist.oil.close, 30)
              corr_copper_oil == corr(column(historical_df, "Copper"),
                                      column(historical_df, "Oil"))
          IN  /\ ind' = [fn |-> "recommend", rsi |-> rsi_copper,
                         slope |-> copper_t.slope, trend |-> copper_t.trend,
                         oil_trend |-> oil_t.trend, corr_copper_oil |-> corr_copper_oil]
              /\ recommendations' =
                    recommend(historical_df, order.copper_quantity_ton, eur_cny_price,
                              copper_t.trend, oil_t.trend, rsi_copper, corr_copper_oil)
    /\ pc' = "rec_done"
    /\ UNCHANGED order_vars
    /\ UNCHANGED <<hist, period, tech, sens, rng, sims, mc>>
    /\ UNCHANGED <<historical_df, data, fetch>>

\* Line 395 false.
RecommendSkipped ==
    /\ pc = "rec_ordered"
    /\ historical_df = <<>>
    /\ pc' = "rec_skipped"
    /\ UNCHANGED order_vars
    /\ UNCHANGED analysis_vars
    /\ UNCHANGED session_vars

NextRecommend ==
    \/ BuildHistoricalDf
    \/ OrderForRecommendation
    \/ Recommend
    \/ RecommendSkipped

SpecRecommend == InitRecommend /\ [][NextRecommend]_vars

(***************************************************************************)
(* The session lists (src/panel.py 102-105) and append_realtime_data       *)
(* (149-157), run after run of update_dashboard (351-355).                 *)
(***************************************************************************)
MaxRuns == 102

SessionCap == 100

DataKeys == {"copper", "oil", "eur_cny", "usd_cny", "copper_quantity_ton", "timestamps"}

\* xs[-n:].
last_n(xs, n) == IF Len(xs) <= n THEN xs ELSE SubSeq(xs, Len(xs) - n + 1, Len(xs))

\* Faulty variant: an Unavailable quantity is not appended.
append_realtime_data_skips_nan(d, cp, op, ep, up, qty, timestamp) ==
    LET appended ==
            [copper |-> Append(d.copper, cp), oil |-> Append(d.oil, op),
             eur_cny |-> Append(d.eur_cny, ep), usd_cny |-> Append(d.usd_cny, up),
             copper_quantity_ton |-> IF isnan(qty) THEN d.copper_quantity_ton
                                     ELSE Append(d.copper_quantity_ton, qty),
             timestamps |-> Append(d.timestamps, timestamp)]
    IN  [key \in DataKeys |-> last_n(appended[key], SessionCap)]

\* Lines 150-157.
append_realtime_data(d, cp, op, ep, up, qty, timestamp) ==
    LET appended ==
            [copper |-> Append(d.copper, cp), oil |-> Append(d.oil, op),
             eur_cny |-> Append(d.eur_cny, ep), usd_cny |-> Append(d.usd_cny, up),
             copper_quantity_ton |-> Append(d.copper_quantity_ton, qty),
             timestamps |-> Append(d.timestamps, timestamp)]
    IN  [key \in DataKeys |-> last_n(appended[key], SessionCap)]

\* What the k-th fetch of the session gives: every `every`-th fetch has the
\* outage `outage` (no copper quote, or no quote at all); the timestamp is k.
realtime_prices(k, outage, every) ==
    IF k % every # 0 \/ outage = "none" THEN <<Num(2), Num(2), Num(2), Num(2)>>
    ELSE IF outage = "copper" THEN <<NaN, Num(2), Num(2), Num(2)>>
    ELSE <<NaN, NaN, NaN, NaN>>

InitSession ==
    /\ budget_eur = Num(1000)
    /\ copper_percentage = Num(50)
    /\ transport_cost_factor = Num(1)
    /\ copper_price = NaN
    /\ oil_price = NaN
    /\ eur_cny_price = NaN
    /\ usd_cny_price = NaN
    /\ order = NoOrder
    /\ proj = NoProj
    /\ calls = <<>>
    /\ pc = "rt_idle"
    /\ AnalysisIdle
    /\ recommendations = <<>>
    /\ historical_df = <<>>
    /\ data = NoData
    /\ \E o \in {"none", "copper", "all"}, e \in {2, 3} :
          fetch = [calls |-> 0, outage |-> o, every |-> e]

\* Lines 351-354.
RealtimeRun ==
    /\ pc = "rt_idle"
    /\ fetch.calls < MaxRuns
    /\ fetch' = [fetch EXCEPT !.calls = @ + 1]
    /\ LET c == realtime_prices(fetch.calls + 1, fetch.outage, fetch.every)
       IN  /\ copper_price' = c[1]
           /\ oil_price' = c[2]
           /\ eur_cny_price' = c[3]
           /\ usd_cny_price' = c[4]
           /\ order' = calculate_order(budget_eur, copper_percentage, transport_cost_factor,
                                       c[1], c[2], c[3], c[4])
    /\ pc' = "rt_fetched"
    /\ UNCHANGED <<budget_eur, copper_percentage, transport_cost_factor, proj, calls>>
    /\ UNCHANGED analysis_vars
    /\ UNCHANGED <<recommendations, historical_df, data>>

\* Line 355.
AppendRealtime ==
    /\ pc = "rt_fetched"
    /\ data' = append_realtime_data(data, copper_price, oil_price, eur_cny_price,
                                    usd_cny_price, order.copper_quantity_ton, fetch.calls)
    /\ pc' = "rt_idle"
    /\ UNCHANGED order_vars
    /\ UNCHANGED analysis_vars
    /\ UNCHANGED <<recommendations, historical_df, fetch>>

NextSession ==
    \/ RealtimeRun
    \/ AppendRealtime

SpecSession == InitSession /\ [][NextSession]_vars

(***************************************************************************)
(* fetch_historical_data (src/panel.py 107-131).                           *)
(***************************************************************************)
max_retries == 3

\* The numbers of rows a download can give.
RowsGrid == {0, MinRows - 1, MinRows, MinRows + 1}

\* A frame of n rows on the dates 1..n.
frame_of_rows(n) ==
    IF n = 0 THEN EmptyFrame
    ELSE DatedFrame([k \in 1..n |-> k], [k \in 1..n |-> Num(2)])

\* Faulty variant: the check of line 122 is left out.
attempt_result_no_row_check(rows, raises) ==
    IF raises THEN "error"
    ELSE IF \E i \in Instruments : rows[i] = 0 THEN "empty"
    ELSE "ok"

\* Lines 113-129: the outcome of one attempt, `rows` being the number of rows
\* of each download and `raises` whether a download raised.
attempt_result(rows, raises) ==
    IF raises THEN "error"
    ELSE IF \E i \in Instruments : rows[i] = 0 THEN "empty"
    ELSE IF \E i \in Instruments : rows[i] < MinRows THEN "short"
    ELSE "ok"

InitFetch ==
    /\ budget_eur = Num(1000)
    /\ copper_percentage = Num(50)
    /\ transport_cost_factor = Num(1)
    /\ copper_price = NaN
    /\ oil_price = NaN
    /\ eur_cny_price = NaN
    /\ usd_cny_price = NaN
    /\ order = NoOrder
    /\ proj = NoProj
    /\ calls = <<>>
    /\ pc = "fetch_loop"
    /\ AnalysisIdle
    /\ recommendations = <<>>
    /\ historical_df = <<>>
    /\ data = NoData
    /\ fetch = [attempt |-> 0, log |-> <<>>]

\* Lines 112-129: one turn of the loop.
Attempt ==
    /\ pc = "fetch_loop"
    /\ fetch.attempt < max_retries
    /\ \E rows \in [Instruments -> RowsGrid], raises \in BOOLEAN :
          LET r == attempt_result(rows, raises)
          IN  /\ fetch' = [attempt |-> fetch.attempt + 1, log |-> Append(fetch.log, r)]
              /\ IF r = "ok"
                 THEN /\ hist' = [i \in Instruments |-> frame_of_rows(rows[i])]
                      /\ pc' = "fetch_done"
                 ELSE /\ hist' = hist
                      /\ pc' = pc
    /\ UNCHANGED order_vars
    /\ UNCHANGED <<period, ind, tech, sens, rng, sims, mc>>
    /\ UNCHANGED <<recommendations, historical_df, data>>

\* Lines 130-131: the loop is over.
GiveUp ==
    /\ pc = "fetch_loop"
    /\ fetch.attempt = max_retries
    /\ hist' = [i \in Instruments |-> EmptyFrame]
    /\ pc' = "fetch_done"
    /\ UNCHANGED order_vars
    /\ UNCHANGED <<period, ind, tech, sens, rng, sims, mc>>
    /\ UNCHANGED session_vars

NextFetch ==
    \/ Attempt
    \/ GiveUp

\* Every download and every sleep of the loop ends.
SpecFetch == InitFetch /\ [][NextFetch]_vars /\ WF_vars(NextFetch)

(***************************************************************************)
(* fetch_realtime_data (src/panel.py 133-147).                             *)
(***************************************************************************)
\* What Ticker(...).history gives: no row, or rows ending in a close.
\* A ticker's history of the day: empty, or with a last close.
EmptyQuote == [empty |-> TRUE, close |-> NaN]

Quote(c) == [empty |-> FALSE, close |-> c]

QuoteGrid == {EmptyQuote, Quote(Num(1)), Quote(Num(2))}

\* Lines 136, 138, 140, 142.
last_close(q) == IF ~q.empty THEN q.close ELSE NaN

\* Faulty variant: after an exception the prices fetched before it are kept.
realtime_result_keeps_fetched(local, raised) ==
    [k \in 1..4 |-> IF k <= Len(local) THEN local[k] ELSE NaN]

\* Lines 144 and 147: the four prices returned.
realtime_result(local, raised) ==
    IF raised THEN <<NaN, NaN, NaN, NaN>> ELSE local

InitRealtime ==
    /\ budget_eur = Num(1000)
    /\ copper_percentage = Num(50)
    /\ transport_cost_factor = Num(1)
    /\ copper_price = NaN
    /\ oil_price = NaN
    /\ eur_cny_price = NaN
    /\ usd_cny_price = NaN
    /\ order = NoOrder
    /\ proj = NoProj
    /\ calls = <<>>
    /\ pc = "rt_fetching"
    /\ AnalysisIdle
    /\ recommendations = <<>>
    /\ historical_df = <<>>
    /\ data = NoData
    /\ fetch = [local |-> <<>>, quotes |-> <<>>, raised |-> FALSE, timestamp |-> "none"]

\* One of the four Ticker(...).history calls and the line after it.
TickerHistory ==
    /\ pc = "rt_fetching"
    /\ Len(fetch.local) < 4
    /\ \E q \in QuoteGrid :
          fetch' = [fetch EXCEPT !.local = Append(@, last_close(q)),
                                 !.quotes = Append(@, q)]
    /\ UNCHANGED order_vars
    /\ UNCHANGED analysis_vars
    /\ UNCHANGED <<pc, recommendations, historical_df, data>>

ReturnPrices(raised) ==
    /\ LET r == realtime_result(fetch.local, raised)
       IN  /\ copper_price' = r[1]
           /\ oil_price' = r[2]
           /\ eur_cny_price' = r[3]
           /\ usd_cny_price' = r[4]
    /\ fetch' = [fetch EXCEPT !.raised = raised, !.timestamp = "now"]
    /\ pc' = "rt_returned"
    /\ UNCHANGED <<budget_eur, copper_percentage, transport_cost_factor, order, proj, calls>>
    /\ UNCHANGED analysis_vars
    /\ UNCHANGED <<recommendations, historical_df, data>>

\* Lines 145-147: one of the four fetches raises.
TickerRaises ==
    /\ pc = "rt_fetching"
    /\ Len(fetch.local) < 4
    /\ ReturnPrices(TRUE)

\* Lines 143-144.
ReturnRealtime ==
    /\ pc = "rt_fetching"
    /\ Len(fetch.local) = 4
    /\ ReturnPrices(FALSE)

NextRealtime ==
    \/ TickerHistory
    \/ TickerRaises
    \/ ReturnRealtime

SpecRealtime == InitRealtime /\ [][NextRealtime]_vars

(***************************************************************************)
(* project_future_price (src/panel.py 189-210) on a series of closes.      *)
(***************************************************************************)
\* Series.dropna().
dropna(xs) == SelectSeq(xs, LAMBDA x : ~isnan(x))

\* Series.std() (sample deviation, ddof = 1), NaN under two values; the
\* square root to a precision of one quarter.
pd_std(xs) ==
    IF Len(xs) < 2 THEN NaN
    ELSE LET mean == np_mean(xs)
         IN  sqrtR(RDiv(SumSeq([k \in 1..Len(xs) |->
                           RMul(RSub(xs[k], mean), RSub(xs[k], mean))]),
                        Num(Len(xs) - 1)))

\* Lines 198-202: the last value of the EMA of span tail_len over close_data.
ema_value(close_data, tail_len) ==
    LET ema_series == ewm_span(close_data, tail_len)
    IN  ema_series[Len(ema_series)]

project_future_price(close, sp) ==
    LET close_data == dropna(close)
        tail_len   == IF sp < Len(close_data) THEN sp ELSE Len(close_data)
    IN  IF Len(close) = 0 \/ Len(close_data) < 2 THEN <<NaN, NaN, NaN>>
        ELSE projection_band(ema_value(close_data, tail_len),
                             pd_std(tail(close_data, tail_len)))

\* Spans of the calls: small ones and the default of line 189.
ProjectionSpans == (2..MaxPeriod) \cup {span}

InitProjectFn ==
    /\ budget_eur = Num(1000)
    /\ copper_percentage = Num(50)
    /\ transport_cost_factor = Num(1)
    /\ copper_price = NaN
    /\ oil_price = NaN
    /\ eur_cny_price = NaN
    /\ usd_cny_price = NaN
    /\ order = NoOrder
    /\ proj = NoProj
    /\ calls = <<>>
    /\ pc = "pfp_idle"
    /\ \E c \in SeriesGrid :
          hist = [i \in Instruments |-> IF i = "copper" THEN Frame(c) ELSE EmptyFrame]
    /\ period = 0
    /\ ind = NoInd
    /\ tech = NoTech
    /\ sens = <<>>
    /\ rng = 0
    /\ sims = <<>>
    /\ mc = NoRun
    /\ SessionIdle

ProjectFuturePrice ==
    /\ pc = "pfp_idle"
    /\ \E sp \in ProjectionSpans :
          /\ period' = sp
          /\ proj' = [proj EXCEPT !.copper = project_future_price(hist.copper.close, sp)]
    /\ pc' = "pfp_done"
    /\ UNCHANGED <<budget_eur, copper_percentage, transport_cost_factor,
                   copper_price, oil_price, eur_cny_price, usd_cny_price, order, calls>>
    /\ UNCHANGED <<hist, ind, tech, sens, rng, sims, mc>>
    /\ UNCHANGED session_vars

NextProjectFn == ProjectFuturePrice

SpecProjectFn == InitProjectFn /\ [][NextProjectFn]_vars

(***************************************************************************)
(* The projection of update_dashboard (src/panel.py 491-529) from the      *)
(* fetched series and the aligned history.                                 *)
(***************************************************************************)
column_of(i) ==
    CASE i = "copper" -> "Copper"
      [] i = "oil" -> "Oil"
      [] i = "eur_cny" -> "EUR/CNY"
      [] i = "usd_cny" -> "USD/CNY"

\* Lines 495-502 for the instrument i (505-511, 514-520, 523-529 alike).
projected_prices(h, df, i, current) ==
    LET band == project_future_price(h[i].close, span)
    IN  future_prices(band,
                      IF isnan(band[1]) THEN NaN ELSE calculate_trend(h[i].close, span).slope,
                      pd_std(column(df, column_of(i))), current)

InitProjectHist ==
    /\ budget_eur = Num(1000)
    /\ copper_percentage = Num(50)
    /\ transport_cost_factor = Num(1)
    /\ \E c \in {<<Num(2), Num(2), Num(2), Num(2)>>, <<NaN, NaN, NaN, NaN>>} :
          /\ copper_price = c[1]
          /\ oil_price = c[2]
          /\ eur_cny_price = c[3]
          /\ usd_cny_price = c[4]
    /\ order = NoOrder
    /\ proj = NoProj
    /\ calls = <<>>
    /\ pc = "hist_fetched"
    /\ \/ hist = [i \in Instruments |-> EmptyFrame]
       \/ \E c \in RecFrames({Num(1), Num(2), Num(3), Num(5)}),
             o \in RecFrames({Num(2), Num(3)}),
             u \in RecFrames({Num(2), Num(3)}),
             e \in RecFrames({Num(2), Num(3)})
                   \cup {DatedFrame(index_without(MinRows + 1),
                                    closes_ending(index_without(MinRows + 1), Num(2)))} :
             hist = [copper |-> c, oil |-> o, eur_cny |-> e, usd_cny |-> u]
    /\ period = 0
    /\ ind = NoInd
    /\ tech = NoTech
    /\ sens = <<>>
    /\ rng = 0
    /\ sims = <<>>
    /\ mc = NoRun
    /\ SessionIdle

\* Lines 491-529.
ProjectFromHistory ==
    /\ pc = "hist_built"
    /\ historical_df # <<>>
    /\ proj' = [copper  |-> projected_prices(hist, historical_df, "copper", copper_price),
                oil     |-> projected_prices(hist, historical_df, "oil", oil_price),
                eur_cny |-> projected_prices(hist, historical_df, "eur_cny", eur_cny_price),
                usd_cny |-> projected_prices(hist, historical_df, "usd_cny", usd_cny_price)]
    /\ pc' = "proj_hist_done"
    /\ UNCHANGED <<budget_eur, copper_percentage, transport_cost_factor,
                   copper_price, oil_price, eur_cny_price, usd_cny_price, order, calls>>
    /\ UNCHANGED analysis_vars
    /\ UNCHANGED session_vars

\* Line 395 false.
ProjectionSkipped ==
    /\ pc = "hist_built"
    /\ historical_df = <<>>
    /\ pc' = "proj_hist_skipped"
    /\ UNCHANGED order_vars
    /\ UNCHANGED analysis_vars
    /\ UNCHANGED session_vars

NextProjectHist ==
    \/ BuildHistoricalDf
    \/ ProjectFromHistory
    \/ ProjectionSkipped

SpecProjectHist == InitProjectHist /\ [][NextProjectHist]_vars

(***************************************************************************)
(* calculate_order in binary floating point (src/panel.py 159-173) and the *)
(* surplus / deficit lines of update_dashboard (378-392).  Every operation *)
(* of the code rounds its exact result to the nearest float, ties to even; *)
(* the floats here have a significand of MantissaBits bits (53 in a        *)
(* Python float).                                                          *)
(***************************************************************************)
MantissaBits == 9

MaxExponent == 24

\* a >= 2^j for a positive a, decided on the integer parts of a and of 1 / a.
ge_pow2(a, j) ==
    IF j >= 0 THEN a[1] \div a[2] >= 2^j
    ELSE (a[2] + a[1] - 1) \div a[1] <= 2^(-j)

\* The exponent of the last place of a positive a.
exponent(a) ==
    CHOOSE k \in (-MaxExponent)..(MaxExponent - MantissaBits) :
        /\ ge_pow2(a, k + MantissaBits - 1)
        /\ ~ge_pow2(a, k + MantissaBits)

\* The multiple of 2^e nearest to a positive a, ties to the even one.
nearest(a, e) ==
    LET up  == IF e < 0 THEN 2^(-e) ELSE 1
        dn  == IF e > 0 THEN 2^e ELSE 1
        g   == GCD(a[1], dn)
        h   == GCD(a[2], up)
        num == (a[1] \div g) * (up \div h)
        den == (a[2] \div h) * (dn \div g)
        m   == num \div den
        rem == num % den
        n   == IF 2 * rem > den \/ (2 * rem = den /\ m % 2 = 1) THEN m + 1 ELSE m
    IN  Rat(n * dn, up)

\* The float nearest to the real x; x and its exponent are evaluated once.
fl(x) ==
    CHOOSE v \in {IF isnan(y) \/ y[1] = 0 THEN y
                  ELSE CHOOSE w \in {IF y[1] < 0 THEN RNeg(nearest(RNeg(y), e))
                                     ELSE nearest(y, e) : e \in {exponent(RAbs(y))}} : TRUE
                  : y \in {x}} : TRUE

FMul(a, b) == fl(RMul(a, b))

FDiv(a, b) == fl(RDiv(a, b))

FAdd(a, b) == fl(RAdd(a, b))

FSub(a, b) == fl(RSub(a, b))

\* Lines 160-173 with the rounding of every operation.
calculate_order_float(b, pct, tf, cp, op, ep, up) ==
    IF any_nan(cp, op, ep, up) THEN AllNaN
    ELSE LET bc  == FMul(b, ep)
             cb  == FMul(bc, FDiv(pct, Hundred))
             ob  == FMul(bc, FSub(Num(1), FDiv(pct, Hundred)))
             cpc == FMul(cp, up)
             opc == FMul(op, up)
             lb  == IF cpc # Zero THEN FDiv(cb, cpc) ELSE NaN
             ton == IF ~isnan(lb) THEN FMul(lb, fl(LbToTon)) ELSE NaN
             tc  == IF ~isnan(opc) THEN FDiv(FMul(opc, tf), Hundred) ELSE Zero
             oc  == IF RGe(ob, tc) THEN FSub(ob, tc) ELSE Zero
             tot == FAdd(FAdd(cb, tc), oc)
             st  == FSub(bc, tot)
         IN  [budget_cny |-> bc, copper_budget_cny |-> cb, other_budget_cny |-> ob,
              copper_quantity_lb |-> lb, copper_quantity_ton |-> ton,
              transport_cost_cny |-> tc, other_cost_cny |-> oc,
              total_order_cost_cny |-> tot, budget_status |-> st, raised |-> "none"]

\* Sidebar inputs and prices that are floats themselves, none negative.
FloatInputs ==
    [b : {Num(100), Num(300), Num(500)}, pct : {Num(30), Num(80), Num(90), Num(100)},
     tf : {Num(1), Num(10)}, cp : {Num(4)}, op : {Num(64), Num(72), Num(80), NaN},
     ep : {Num(7), Num(8)}, up : {Num(7), Rat(29, 4)}]

InitOrderFloat ==
    /\ \E i \in FloatInputs :
          /\ budget_eur = i.b
          /\ copper_percentage = i.pct
          /\ transport_cost_factor = i.tf
          /\ copper_price = i.cp
          /\ oil_price = i.op
          /\ eur_cny_price = i.ep
          /\ usd_cny_price = i.up
    /\ order = NoOrder
    /\ proj = NoProj
    /\ calls = <<>>
    /\ pc = "fl_call"
    /\ AnalysisIdle
    /\ SessionIdle

\* Lines 352-354.
CalculateOrderFloat ==
    /\ pc = "fl_call"
    /\ order' = calculate_order_float(budget_eur, copper_percentage, transport_cost_factor,
                                      copper_price, oil_price, eur_cny_price, usd_cny_price)
    /\ pc' = "fl_returned"
    /\ UNCHANGED <<budget_eur, copper_percentage, transport_cost_factor,
                   copper_price, oil_price, eur_cny_price, usd_cny_price, proj, calls>>
    /\ UNCHANGED analysis_vars
    /\ UNCHANGED session_vars

\* Lines 378 and 387-388: the "Sobrante" line.
ShowSurplus ==
    /\ pc = "fl_returned"
    /\ ~isnan(order.budget_cny)
    /\ RGe(order.budget_status, Zero)
    /\ pc' = "sobrante"
    /\ UNCHANGED order_vars
    /\ UNCHANGED analysis_vars
    /\ UNCHANGED session_vars

\* Lines 378 and 389-390: the "Deficit" warning.
ShowDeficit ==
    /\ pc = "fl_returned"
    /\ ~isnan(order.budget_cny)
    /\ ~RGe(order.budget_status, Zero)
    /\ pc' = "deficit"
    /\ UNCHANGED order_vars
    /\ UNCHANGED analysis_vars
    /\ UNCHANGED session_vars

\* Lines 391-392: the order could not be calculated.
ShowMissing ==
    /\ pc = "fl_returned"
    /\ isnan(order.budget_cny)
    /\ pc' = "missing"
    /\ UNCHANGED order_vars
    /\ UNCHANGED analysis_vars
    /\ UNCHANGED session_vars

NextOrderFloat ==
    \/ CalculateOrderFloat
    \/ ShowSurplus
    \/ ShowDeficit
    \/ ShowMissing

SpecOrderFloat == InitOrderFloat /\ [][NextOrderFloat]_vars

(***************************************************************************)
(* Properties of calculate_order, checked under Spec.                      *)
(***************************************************************************)
Returned == pc = "returned"

Fields == {"budget_cny", "copper_budget_cny", "other_budget_cny",
           "copper_quantity_lb", "copper_quantity_ton", "transport_cost_cny",
           "other_cost_cny", "total_order_cost_cny", "budget_status"}

AllUnavailable(r) == \A f \in Fields : isnan(r[f])

InputUnavailable ==
    isnan(copper_price) \/ isnan(oil_price) \/ isnan(eur_cny_price) \/ isnan(usd_cny_price)

\* The result counts as available when its budget is a number (the test
\* update_dashboard makes at src/panel.py 380).
ResultAvailable == ~isnan(order.budget_cny)

ValidParameters ==
    /\ RGt(budget_eur, Zero)
    /\ RGe(copper_percentage, Zero) /\ RLe(copper_percentage, Hundred)
    /\ RGe(transport_cost_factor, Zero) /\ RLe(transport_cost_factor, Hundred)

\* C1: with any of the four prices NaN, all nine output fields are NaN.
C1_UnavailableInputGivesUnavailable ==
    (Returned /\ InputUnavailable) => AllUnavailable(order)

C1_Witness ==
    /\ Returned
    /\ isnan(oil_price)
    /\ ~isnan(copper_price) /\ ~isnan(eur_cny_price) /\ ~isnan(usd_cny_price)
    /\ AllUnavailable(order)

\* C2: in every available result the total cost is the sum of commodity
\* budget, transport cost and other cost, and the status is the budget minus
\* the total.
C2_TotalAndStatus ==
    (Returned /\ ResultAvailable) =>
        /\ order.total_order_cost_cny =
              RAdd(RAdd(order.copper_budget_cny, order.transport_cost_cny),
                   order.other_cost_cny)
        /\ order.budget_status = RSub(order.budget_cny, order.total_order_cost_cny)

C2_Witness ==
    /\ Returned
    /\ ResultAvailable
    /\ RGt(order.transport_cost_cny, Zero)
    /\ RGt(order.other_cost_cny, Zero)
    /\ RGt(order.copper_budget_cny, Zero)

\* C3: other cost is max(other budget - transport cost, 0); when transport
\* exceeds the other budget, other cost is 0, transport still counts in full
\* in the total and the status is the negative number other budget -
\* transport cost.
C3_OtherCostFloor ==
    (Returned /\ ResultAvailable) =>
        LET diff == RSub(order.other_budget_cny, order.transport_cost_cny)
        IN  /\ order.other_cost_cny = IF RGe(diff, Zero) THEN diff ELSE Zero
            /\ RGt(order.transport_cost_cny, order.other_budget_cny) =>
                  /\ order.other_cost_cny = Zero
                  /\ order.total_order_cost_cny =
                        RAdd(order.copper_budget_cny, order.transport_cost_cny)
                  /\ RLt(order.budget_status, Zero)
                  /\ order.budget_status = diff

C3_Witness ==
    /\ Returned
    /\ ResultAvailable
    /\ RGt(order.transport_cost_cny, order.other_budget_cny)
    /\ RGt(order.other_budget_cny, Zero)
    /\ order.other_cost_cny = Zero
    /\ order.budget_status = Rat(-186, 10)

\* C4: for valid parameters and available prices, commodity budget plus other
\* budget is the budget in target currency, which is budget * target rate,
\* and the commodity budget is that times share / 100.
C4_BudgetSplit ==
    (Returned /\ ValidParameters /\ ~InputUnavailable) =>
        /\ order.budget_cny = RMul(budget_eur, eur_cny_price)
        /\ order.copper_budget_cny =
              RDiv(RMul(order.budget_cny, copper_percentage), Hundred)
        /\ RAdd(order.copper_budget_cny, order.other_budget_cny) = order.budget_cny

C4_Witness ==
    /\ Returned
    /\ ValidParameters
    /\ ~InputUnavailable
    /\ copper_percentage = Num(50)
    /\ RGt(order.copper_budget_cny, Zero)
    /\ order.other_budget_cny = order.copper_budget_cny

\* C5 (as claimed): with four available prices whose product commodity price
\* * settlement rate is zero, all nine output fields are NaN.
C5_ZeroPriceGivesUnavailable ==
    (Returned /\ ~InputUnavailable /\ RMul(copper_price, usd_cny_price) = Zero) =>
        AllUnavailable(order)

\* C6: the end-to-end scenario yields 780000, 390000, 390000, 390000/32.4 lb,
\* transport 5.76, other 389994.24, total 780000 and status 0.
C6_EndToEnd ==
    (Returned /\ budget_eur = E2E.b /\ copper_percentage = E2E.pct
       /\ transport_cost_factor = E2E.tf /\ copper_price = E2E.cp
       /\ oil_price = E2E.op /\ eur_cny_price = E2E.ep /\ usd_cny_price = E2E.up) =>
        /\ order.budget_cny = Num(780000)
        /\ order.copper_budget_cny = Num(390000)
        /\ order.other_budget_cny = Num(390000)
        /\ order.copper_quantity_lb = Rat(3900000, 324)
        /\ order.transport_cost_cny = Rat(576, 100)
        /\ order.other_cost_cny = Rat(38999424, 100)
        /\ order.total_order_cost_cny = Num(780000)
        /\ order.budget_status = Zero

C6_Witness ==
    /\ Returned
    /\ budget_eur = Num(100000)
    /\ copper_price = Rat(9, 2)
    /\ usd_cny_price = Rat(36, 5)
    /\ order.total_order_cost_cny = Num(780000)
    /\ RGt(order.copper_quantity_ton, Num(5)) /\ RLt(order.copper_quantity_ton, Num(6))

\* C7 (as claimed): for valid parameters and non-negative available prices,
\* every quantity and cost of an available result is a non-negative number.
C7_NonNegative ==
    (Returned /\ ValidParameters /\ ~InputUnavailable /\ ResultAvailable
       /\ RGe(copper_price, Zero) /\ RGe(oil_price, Zero)
       /\ RGe(eur_cny_price, Zero) /\ RGe(usd_cny_price, Zero)) =>
        \A f \in Fields \ {"budget_cny", "budget_status"} : RGe(order[f], Zero)

InvalidParameters ==
    \/ RLt(budget_eur, Zero)
    \/ RLt(copper_percentage, Zero) \/ RGt(copper_percentage, Hundred)
    \/ RLt(transport_cost_factor, Zero) \/ RGt(transport_cost_factor, Hundred)

\* C8 (as claimed): a call with a negative budget or a share or transport
\* factor outside [0,100] fails with InvalidParameter.
C8_InvalidParameterFails ==
    (Returned /\ InvalidParameters) => order.raised = "InvalidParameter"

(***************************************************************************)
(* Properties of the projected scenarios, checked under SpecProjection.    *)
(***************************************************************************)
Projected == pc = "projected"

future_copper_quantity_ton == calls[1].ton

min_copper_quantity_ton == calls[2].ton

max_copper_quantity_ton == calls[3].ton

\* C9 (as claimed): whenever the three projected quantities are numbers,
\* max-quantity >= expected >= min-quantity.
C9_ScenarioOrdering ==
    (Projected /\ ~isnan(future_copper_quantity_ton)
       /\ ~isnan(min_copper_quantity_ton) /\ ~isnan(max_copper_quantity_ton)) =>
        /\ RGe(max_copper_quantity_ton, future_copper_quantity_ton)
        /\ RGe(future_copper_quantity_ton, min_copper_quantity_ton)

\* C9 (amended): when all twelve projected values are available, the lower
\* bounds of the commodity price and of the settlement rate are positive and
\* the lower bound of the target rate is not negative,
\* max-quantity >= expected >= min-quantity.
C9_ScenarioOrderingPositive ==
    (Projected
       /\ \A i \in Instruments : \A k \in 1..3 : ~isnan(proj[i][k])
       /\ RGt(proj.copper[2], Zero) /\ RGt(proj.usd_cny[2], Zero)
       /\ RGe(proj.eur_cny[2], Zero)) =>
        /\ RGe(max_copper_quantity_ton, future_copper_quantity_ton)
        /\ RGe(future_copper_quantity_ton, min_copper_quantity_ton)

C9_Witness ==
    /\ Projected
    /\ \A i \in Instruments : \A k \in 1..3 : ~isnan(proj[i][k])
    /\ RGt(proj.copper[2], Zero) /\ RGt(proj.usd_cny[2], Zero)
    /\ RGt(proj.eur_cny[2], Zero)
    /\ RGt(max_copper_quantity_ton, future_copper_quantity_ton)
    /\ RGt(future_copper_quantity_ton, min_copper_quantity_ton)
    /\ RGt(min_copper_quantity_ton, Zero)

\* C10: the max-quantity call takes the lower commodity price, the lower
\* transport-proxy price, the upper target rate and the lower settlement
\* rate; the min-quantity call takes the opposite bound of each.
C10_BoundPairing ==
    Projected =>
        /\ calls[3].args = <<proj.copper[2], proj.oil[2], proj.eur_cny[3], proj.usd_cny[2]>>
        /\ calls[2].args = <<proj.copper[3], proj.oil[3], proj.eur_cny[2], proj.usd_cny[3]>>

C10_Witness ==
    /\ Projected
    /\ \A i \in Instruments : RLt(proj[i][2], proj[i][1]) /\ RLt(proj[i][1], proj[i][3])
    /\ calls[3].args # calls[2].args
    /\ ~isnan(max_copper_quantity_ton)

(***************************************************************************)
(* Properties of the sensitivity analysis, checked under SpecSensitivity.  *)
(***************************************************************************)
SensDone == pc = "sens_done"

Current == <<copper_price, oil_price, eur_cny_price, usd_cny_price>>

\* C11: for a positive budget, a positive share and positive prices, the
\* scenario "commodity +5%" yields strictly less than the order at the
\* current prices and "commodity -5%" strictly more.
C11_CommodityMonotone ==
    (SensDone /\ RGt(budget_eur, Zero) /\ RGt(copper_percentage, Zero)
       /\ \A i \in 1..4 : RGt(Current[i], Zero)) =>
        /\ RLt(sens[1].ton, order.copper_quantity_ton)
        /\ RGt(sens[2].ton, order.copper_quantity_ton)
        /\ sens[1].label = "Cobre +5%"
        /\ sens[2].label = "Cobre -5%"

C11_Witness ==
    /\ SensDone
    /\ RGt(copper_percentage, Zero)
    /\ \A i \in 1..4 : RGt(Current[i], Zero)
    /\ RGt(order.copper_quantity_ton, Zero)
    /\ RLt(sens[1].ton, order.copper_quantity_ton)

\* The index of the perturbed price and the factor of each of the six
\* scenarios.
Canonical ==
    << [label |-> "Cobre +5%",    at |-> 1, factor |-> Rat(21, 20)],
       [label |-> "Cobre -5%",    at |-> 1, factor |-> Rat(19, 20)],
       [label |-> "Petroleo +5%", at |-> 2, factor |-> Rat(21, 20)],
       [label |-> "Petroleo -5%", at |-> 2, factor |-> Rat(19, 20)],
       [label |-> "EUR/CNY +5%",  at |-> 3, factor |-> Rat(21, 20)],
       [label |-> "EUR/CNY -5%",  at |-> 3, factor |-> Rat(19, 20)] >>

C13_Reproducible ==
    \A i, j \in 1..Len(sims) :
        sims[i].inputs = sims[j].inputs =>
            /\ sims[i].outcomes = sims[j].outcomes
            /\ sims[i].stats = sims[j].stats

C13_Witness ==
    /\ Len(sims) = 2
    /\ sims[1].inputs = sims[2].inputs
    /\ sims[1].rng_before # sims[2].rng_before
    /\ Len(sims[2].outcomes) = n_sim
    /\ sims[2].outcomes[1] # sims[2].outcomes[2]
    /\ RGt(sims[2].stats.max_qty, sims[2].stats.min_qty)

MonteCarloStep == StartMonteCarlo \/ Trial \/ Summarize

\* C14 (as claimed): no step of the simulation changes the state of the
\* process-wide generator.
C14_GlobalGeneratorUntouched == [][MonteCarloStep => rng' = rng]_vars

(***************************************************************************)
(* Properties of calculate_rsi and calculate_trend, checked under          *)
(* SpecIndicators.                                                         *)
(***************************************************************************)
RsiCalled == pc = "ind_done" /\ ind.fn = "calculate_rsi"

TrendCalled == pc = "ind_done" /\ ind.fn = "calculate_trend"

Closes == hist.copper.close

\* C15 (as claimed): for a series of at least period+1 closes the RSI is a
\* number of [0, 100], and it is 100 whenever the smoothed average loss is 0.
C15_RsiInRange ==
    (RsiCalled /\ Len(Closes) >= period + 1) =>
        /\ ~isnan(ind.rsi)
        /\ RGe(ind.rsi, Zero)
        /\ RLe(ind.rsi, Hundred)
        /\ (avg_loss(Closes, period) = Zero => ind.rsi = Hundred)

\* C16: calculate_rsi returns Indeterminate (NaN) for every series of fewer
\* than period+1 closes.
C16_RsiNeedsPeriodPlusOne ==
    (RsiCalled /\ Len(Closes) < period + 1) => isnan(ind.rsi)

C16_Witness ==
    /\ RsiCalled
    /\ Len(Closes) = 5
    /\ period = 14
    /\ isnan(ind.rsi)

TechDone == pc = "tech_done"

Rows == Len(hist.copper.close)

BollingerComputed == tech.bollinger \in {"Sobrecompra", "Sobreventa", "neutral"}

MacdComputed ==
    \/ tech.macd \in {"Alcista", "Bajista"}
    \/ ~isnan(tech.latest_macd)
    \/ ~isnan(tech.latest_signal)
    \/ hist.copper.columns \cap MacdColumns # {}

C19_MacdNeeds26 == (TechDone /\ Rows < 26) => ~MacdComputed

C19_Witness ==
    /\ TechDone
    /\ Rows = 5
    /\ tech.macd = "error: no data"
    /\ ~MacdComputed

\* C20 (as claimed): no step changes the columns or the values of any of the
\* four historical series.
C20_SeriesNotMutated == [][hist' = hist]_vars

(***************************************************************************)
(* Properties of the aligned history, checked under SpecHistory.           *)
(***************************************************************************)
HistoryBuilt == pc \in {"hist_built", "hist_corr"}

\* C22 (as claimed): every row of the aligned history carries the same nine
\* values as calculate_order gives for the prices of that row.
C22_HistoricalRowsAsCalculateOrder ==
    HistoryBuilt =>
        \A k \in 1..Len(historical_df) :
            LET row == historical_df[k]
                o   == calculate_order(budget_eur, copper_percentage, transport_cost_factor,
                                       row["Copper"], row["Oil"], row["EUR/CNY"], row["USD/CNY"])
            IN  /\ row["Budget CNY"] = o.budget_cny
                /\ row["Copper Budget CNY"] = o.copper_budget_cny
                /\ row["Other Budget CNY"] = o.other_budget_cny
                /\ row["Copper Quantity lb"] = o.copper_quantity_lb
                /\ row["Copper Quantity ton"] = o.copper_quantity_ton
                /\ row["Transport Cost CNY"] = o.transport_cost_cny
                /\ row["Other Cost CNY"] = o.other_cost_cny
                /\ row["Total Order Cost CNY"] = o.total_order_cost_cny
                /\ row["Budget Status CNY"] = o.budget_status

available_dates(frame) ==
    {d \in index_set(frame) : ~isnan(close_at(frame, d))}

\* C28 (as claimed): the copper-oil correlation is taken over exactly the
\* dates at which copper and oil both have a close, whatever the dates of
\* the two exchange-rate series.
C28_PairwiseDates ==
    pc = "hist_corr" =>
        ind.points = available_dates(hist.copper) \cap available_dates(hist.oil)

(***************************************************************************)
(* Properties of the recommendations, checked under SpecRecommend.         *)
(***************************************************************************)
Said(t) == \E k \in 1..Len(recommendations) : recommendations[k] = t

\* C21 (as claimed): with the current quantity Unavailable no sentence
\* compares it with the history, with the EUR/CNY rate Unavailable no
\* sentence places it against 8.5, and with a trend Indeterminate no
\* sentence gives its direction.
C21_NoClaimOnUnavailable ==
    pc = "rec_done" =>
        /\ isnan(order.copper_quantity_ton) =>
              /\ ~Said("supera el promedio") /\ ~Said("inferior al promedio")
              /\ ~Said("mejora sobre el minimo") /\ ~Said("por debajo del maximo")
        /\ isnan(eur_cny_price) => ~Said("EUR/CNY < 8.5") /\ ~Said("EUR/CNY >= 8.5")
        /\ ind.trend = "Indeterminada" => ~Said("cobre bajista") /\ ~Said("cobre alcista")
        /\ ind.oil_trend = "Indeterminada" =>
              ~Said("petroleo bajista") /\ ~Said("petroleo alcista")

(***************************************************************************)
(* Properties of the session lists, checked under SpecSession.             *)
(***************************************************************************)
\* The number of append_realtime_data calls made so far.
Appended == IF pc = "rt_fetched" THEN fetch.calls - 1 ELSE fetch.calls

Min(a, b) == IF a < b THEN a ELSE b

\* The observation of the k-th run, as the lists hold it.
observation(k) ==
    LET c == realtime_prices(k, fetch.outage, fetch.every)
    IN  [copper |-> c[1], oil |-> c[2], eur_cny |-> c[3], usd_cny |-> c[4],
         copper_quantity_ton |->
             calculate_order(budget_eur, copper_percentage, transport_cost_factor,
                             c[1], c[2], c[3], c[4]).copper_quantity_ton,
         timestamps |-> k]

\* C23: the six lists have the same length min(number of appends, 100) and
\* hold the latest observations in arrival order, one per run, Unavailable
\* ones included.
C23_SessionLists ==
    \A key \in DataKeys :
        /\ Len(data[key]) = Min(Appended, SessionCap)
        /\ \A k \in 1..Len(data[key]) :
              data[key][k] = observation(Appended - Len(data[key]) + k)[key]

C23_Witness ==
    /\ pc = "rt_idle"
    /\ fetch.calls = 102
    /\ Len(data.copper_quantity_ton) = 100
    /\ data.timestamps[1] = 3
    /\ isnan(data.copper_quantity_ton[100])
    /\ ~isnan(data.copper_quantity_ton[99])

(***************************************************************************)
(* Properties of fetch_historical_data, checked under SpecFetch.           *)
(***************************************************************************)
FetchReturned == pc = "fetch_done"

AllFetched == \A i \in Instruments : Len(hist[i].close) >= MinRows

AllEmpty == \A i \in Instruments : hist[i] = EmptyFrame

\* The attempts before the last one failed.
EarlierFailed == \A k \in 1..(Len(fetch.log) - 1) : fetch.log[k] # "ok"

LastOk == fetch.log # <<>> /\ fetch.log[Len(fetch.log)] = "ok"

C24_Safe ==
    /\ fetch.attempt <= 3
    /\ Len(fetch.log) = fetch.attempt
    /\ EarlierFailed
    /\ LastOk => FetchReturned
    /\ FetchReturned =>
          \/ AllFetched /\ LastOk
          \/ AllEmpty /\ fetch.attempt = 3 /\ ~LastOk

\* C24: fetch_historical_data returns after at most 3 attempts, at the first
\* attempt that gives four non-empty series of at least 30 rows, with four
\* empty series when all three attempts fail, and with nothing else.
C24_FetchTerminates == []C24_Safe /\ <>FetchReturned

C24_Witness ==
    /\ FetchReturned
    /\ fetch.log = <<"error", "short", "ok">>
    /\ AllFetched
    /\ Len(hist.copper.close) = 30
    /\ Len(hist.oil.close) = 31

(***************************************************************************)
(* Properties of fetch_realtime_data, checked under SpecRealtime.          *)
(***************************************************************************)
RealtimeReturned == pc = "rt_returned"

Prices == <<copper_price, oil_price, eur_cny_price, usd_cny_price>>

\* C25: fetch_realtime_data returns a timestamp with four prices; without an
\* exception a price is Unavailable exactly when its history was empty, and
\* after an exception all four are Unavailable.
C25_RealtimeNeverRaises ==
    RealtimeReturned =>
        /\ fetch.timestamp = "now"
        /\ fetch.raised => \A k \in 1..4 : isnan(Prices[k])
        /\ ~fetch.raised =>
              \A k \in 1..4 :
                  /\ fetch.quotes[k].empty => isnan(Prices[k])
                  /\ ~fetch.quotes[k].empty => Prices[k] = fetch.quotes[k].close

C25_Witness ==
    /\ RealtimeReturned
    /\ fetch.raised
    /\ fetch.quotes = <<Quote(Num(2)), EmptyQuote, Quote(Num(1))>>
    /\ isnan(copper_price)
    /\ isnan(eur_cny_price)

(***************************************************************************)
(* Properties of project_future_price, checked under SpecProjectFn.        *)
(***************************************************************************)
\* C27 (as claimed): the expected value is the last value of the EMA of span
\* tail = min(span, number of closes) taken over the last `tail` closes
\* alone.
C27_EmaOverTailOnly ==
    (pc = "pfp_done" /\ Len(Closes) >= 2) =>
        LET tail_len == IF period < Len(Closes) THEN period ELSE Len(Closes)
        IN  proj.copper[1] = ema_value(tail(Closes, tail_len), tail_len)

(***************************************************************************)
(* Properties of the projection from the history, checked under            *)
(* SpecProjectHist.                                                        *)
(***************************************************************************)
\* C26 (as claimed): the lower and the upper projected price of every
\* instrument are expected -/+ spread + slope * horizon -/+ drift, the drift
\* being spread * sqrt(horizon) / sqrt(252) for the spread of the band (the
\* deviation of the last closes of the instrument's own series).
C26_DriftFromBandSpread ==
    pc = "proj_hist_done" =>
        \A i \in Instruments :
            LET band   == project_future_price(hist[i].close, span)
                spread == RSub(band[3], band[1])
                trend  == RMul(calculate_trend(hist[i].close, span).slope, Num(days_ahead))
            IN  ~isnan(band[1]) =>
                    /\ proj[i][2] = RSub(RAdd(RSub(band[1], spread), trend), drift(spread))
                    /\ proj[i][3] = RAdd(RAdd(RAdd(band[1], spread), trend), drift(spread))

(***************************************************************************)
(* Properties of the surplus / deficit of an order, checked under          *)
(* SpecOrderFloat.                                                         *)
(***************************************************************************)
FloatReturned == pc \in {"fl_returned", "sobrante", "deficit"}

\* C29 (as claimed): for every available result of calculate_order on
\* non-negative inputs the surplus / deficit is never positive: it is exactly
\* 0 when the transport cost is at most the other budget and negative
\* otherwise, so the "Sobrante" line only ever shows a surplus of 0.
C29_StatusNeverPositive ==
    (FloatReturned /\ ~isnan(order.budget_status)) =>
        /\ ~RGt(order.budget_status, Zero)
        /\ RLe(order.transport_cost_cny, order.other_budget_cny) =>
               order.budget_status = Zero
        /\ RGt(order.transport_cost_cny, order.other_budget_cny) =>
               RLt(order.budget_status, Zero)
        /\ pc = "sobrante" => order.budget_status = Zero

====
